---- MODULE Spec2Model ----
(***************************************************************************)
(* A model of the nurses_2 widget toolkit: the geometry routine            *)
(* overlapping_region, the compositor Widget.render, the dispatcher         *)
(* Widget.dispatch_click, the VT100 input decoder read_keys, the click     *)
(* classifier determine_nclicks, FocusBehavior, the tree operations        *)
(* add_widget / remove_widget / pull_to_front, normalize_canvas, the event *)
(* loop of App._run_async, TextAnimation, Widget.resize and                *)
(* AutoPositionBehavior.                                                   *)
(*                                                                         *)
(* Each part of the program has its own specification (SpecOverlap,        *)
(* SpecRender, SpecDispatch, SpecDecoder, SpecClicks, SpecFocus, SpecTree, *)
(* SpecTreeAny, SpecNormalize, SpecTasks, SpecAnim, SpecResize,            *)
(* SpecAutoPos); the variables of the other parts stay at their idle       *)
(* values.                                                                 *)
(***************************************************************************)
EXTENDS Integers, Sequences, FiniteSets, TLC

VARIABLES
    rect,       \* overlapping_region / render: the Rect being painted into
    child,      \* overlapping_region: the child widget's bounding box
    region,     \* overlapping_region: whether it was called, and the value returned
    children,   \* Widget.children: each widget's list of child widgets
    pos,        \* Widget.pos: (top, left) relative to the parent
    size,       \* Widget.size: (height, width)
    is_transparent, \* Widget.is_transparent
    is_visible, \* Widget.is_visible
    is_enabled, \* Widget.is_enabled
    default_char,   \* Widget.default_char
    canvas,     \* Widget.canvas: each widget's grid of characters
    colors,     \* Widget.colors: each widget's grid of colour pairs
    canvas_view,    \* render: the destination characters
    colors_view,    \* render: the destination colours
    painted,    \* render: the paints done by the last render, in order
    render_raised,  \* render: the last render raised (shapes did not match)
    on_press,   \* what each widget's on_press handler returns
    on_click,   \* what each widget's on_click handler returns
    on_paste,   \* what each widget's on_paste handler returns
    event,      \* dispatch: the event read_from_input is about to dispatch
    calls,      \* dispatch: the widgets whose handler was called, in order
    handled,    \* dispatch: what the dispatch on P returned
    feed,       \* decoder: the chunks the terminal has yet to write
    stdin,      \* decoder: the characters written and not yet read
    _EVENTS,    \* console_input._EVENTS
    yielded,    \* decoder: the events read_keys has yielded so far
    reads,      \* decoder: the data of each call of read_keys so far
    matches,    \* decoder: calls of _find_longest_match in the last read_keys
    read_raised,    \* decoder: the last read_keys raised
    match_calls,    \* decoder: the calls of _find_longest_match of the last read_keys
    now,        \* clicks: what monotonic() returns
    last_mouse_button,  \* _run_async: button of the last mouse-down
    last_mouse_time,    \* _run_async: time of the last mouse-down
    last_mouse_nclicks, \* _run_async: click count of the last mouse-down
    mouse_events_out,   \* clicks: the events handed to dispatch_mouse, in order
    is_focusable,   \* focus: the widgets that are FocusBehavior instances
    ptf_on_focus,   \* FocusBehavior.ptf_on_focus of each widget
    alive,          \* focus: the widgets that have not been destroyed
    focus_widgets,  \* FocusBehavior.__focus_widgets (a deque of weak references)
    focused,        \* FocusBehavior.__focused (a WeakSet)
    last_op,        \* focus: the last operation, the state it met and what it did
    run,            \* focus: the widgets focused by the focus_next calls in a row
    key_calls,      \* focus: the calls made by the last dispatch_key on the root
    widget_parent,  \* Widget.parent: each widget's back-reference
    tree_op,        \* tree: the last add_widget / remove_widget / pull_to_front call
    norm_op,        \* normalize_canvas: the last call and the canvas it met
    dispatched,     \* read_from_input: the dispatch calls made so far, in order
    pending_at,     \* decoder: where in the stream each event in _EVENTS began
    running,        \* event loop: the callback or coroutine it is executing
    render_at,      \* auto_render: the statement it is at
    render_todo,    \* root.render(): the widgets the traversal has yet to paint
    frame,          \* root.render(): what the traversal has painted of each widget
    started,        \* root.render(): the dispatches and ticks done when it began
    shown,          \* env_out.render_frame: the last frame handed over
    renders,        \* auto_render: the iterations of its loop so far
    text,           \* what each widget would paint: the last event it handled
    read_at,        \* read_from_input: the statement it is at
    read_todo,      \* read_from_input: the events of this call not yet dispatched
    dispatch_todo,  \* dispatch: the widgets yet to be offered the current event
    completed,      \* read_from_input: the dispatch calls that have returned
    arrived,        \* the events that have arrived at read_from_input
    ticks,          \* on_start: the steps the user's coroutine has taken
    frames,         \* TextAnimation: len(self.frames)
    loop,           \* TextAnimation.loop
    reverse,        \* TextAnimation.reverse
    _i,             \* TextAnimation._i: the index of the frame shown
    _animation_task,    \* TextAnimation._animation_task: a task, or 0 for None
    task_at,        \* where each task created by play is in _play_animation
    removed,        \* animation: on_remove was called and play was not since
    advanced,       \* animation: a task advanced _i while removed was true
    last_wake,      \* animation: the task whose sleep ended in the last step, and
                    \* the index and the reverse flag it met
    default_color_pair, \* Widget.default_color_pair
    resizes,        \* resize: size, canvas and colors met by each call so far
    geometry_calls, \* resize: the update_geometry calls of the last resize
    anchor,         \* AutoPositionBehavior.anchor
    top_hint,       \* AutoPositionBehavior.top_hint, a fraction
    left_hint,      \* AutoPositionBehavior.left_hint, a fraction
    geometry_updates    \* auto position: the calls of update_geometry so far

overlapVars == <<rect, child, region>>
treeVars == <<children, pos, size, is_transparent, is_visible, is_enabled,
              default_char, canvas, colors>>
renderVars == <<canvas_view, colors_view, painted, render_raised>>
handlerVars == <<on_press, on_click, on_paste>>
dispatchVars == <<event, calls, handled>>
decoderVars == <<feed, stdin, _EVENTS, yielded, reads, matches, read_raised,
                 match_calls>>
clickState == <<last_mouse_button, last_mouse_time, last_mouse_nclicks>>
clickVars == <<now, clickState, mouse_events_out>>
\* The variables of the parts below the decoder.
focusVars == <<is_focusable, ptf_on_focus, alive, focus_widgets, focused,
               last_op, run,
              key_calls>>
treeOpVars == <<widget_parent, tree_op>>
normVars == <<norm_op>>
inputVars == <<dispatched, pending_at>>
\* The variables of the parts below normalize_canvas.
taskVars == <<running, render_at, render_todo, frame, started, shown, renders,
              text, read_at, read_todo, dispatch_todo, completed, arrived,
              ticks>>
animVars == <<frames, loop, reverse, _i, _animation_task, task_at, removed,
              advanced, last_wake>>
resizeVars == <<default_color_pair, resizes, geometry_calls>>
autoPosVars == <<anchor, top_hint, left_hint, geometry_updates>>
moreVars == <<inputVars, taskVars, animVars, resizeVars, autoPosVars>>
laterVars == <<clickVars, focusVars, treeOpVars, normVars, moreVars>>
vars == <<overlapVars, treeVars, renderVars, handlerVars, dispatchVars,
          decoderVars, laterVars>>

(***************************************************************************)
(* Bounds                                                                  *)
(***************************************************************************)
MaxDim == 2         \* largest height / width of a destination rectangle
ViewH == 2          \* rows of the widget render is called on
ViewW == 3          \* columns of the widget render is called on
MaxSlowLen == 6     \* longest message that is also sent one character per chunk
MaxMouseEvents == 4 \* mouse events read by read_from_input
MaxRun == 3         \* focus_next calls in a row that are remembered
NormW == 4          \* columns of the canvas normalize_canvas is called on
MaxTaskEvents == 2  \* events that arrive at read_from_input while tasks run
MaxRenders == 2     \* iterations of the loop of auto_render
MaxTicks == 1       \* steps of the user's on_start coroutine
MaxFrames == 2      \* frames of a TextAnimation
MaxPlays == 2       \* calls of TextAnimation.play
MaxSide == 2        \* largest height / width a widget is resized to
MaxResizes == 2     \* calls of Widget.resize in a row
MaxOffset == 1      \* largest top / left of a widget before update_geometry
MaxUpdates == 2     \* calls of update_geometry in a row
MaxEntries == 3     \* entries of all child lists together, when any widget
                    \* may be added to any other

Max(a, b) == IF a >= b THEN a ELSE b
Min(a, b) == IF a <= b THEN a ELSE b

(***************************************************************************)
(* widget_data_structures.Rect                                             *)
(***************************************************************************)
Rect(top, left, bottom, right, height, width) ==
    [top |-> top, left |-> left, bottom |-> bottom, right |-> right,
     height |-> height, width |-> width]

\* Widget.bottom and Widget.right (properties derived from pos and size).
bottom(w) == w.top + w.height
right(w) == w.left + w.width

(***************************************************************************)
(* overlapping_region                                                      *)
(***************************************************************************)
\* The value overlapping_region returns when the child does not overlap
\* (Python: False).
NoRegion == [hit |-> FALSE]

\* A plausible slip: the source bottom of a child that starts on-screen and
\* ends off-screen is taken to be h, forgetting the offset dt.
overlap_tb_forgets_dt(ct, cb, h, child_height) ==
    IF ct < 0
    THEN IF cb >= h
         THEN [st |-> -ct, dt |-> 0, sb |-> h + (-ct), db |-> h]
         ELSE [st |-> -ct, dt |-> 0, sb |-> child_height, db |-> cb]
    ELSE IF cb >= h
         THEN [st |-> 0, dt |-> ct, sb |-> h, db |-> h]
         ELSE [st |-> 0, dt |-> ct, sb |-> child_height, db |-> cb]

\* The four cases for the top / bottom of the child.
overlap_tb(ct, cb, h, child_height) ==
    IF ct < 0
    THEN IF cb >= h
         THEN [st |-> -ct, dt |-> 0, sb |-> h + (-ct), db |-> h]
         ELSE [st |-> -ct, dt |-> 0, sb |-> child_height, db |-> cb]
    ELSE IF cb >= h
         THEN [st |-> 0, dt |-> ct, sb |-> h - ct, db |-> h]
         ELSE [st |-> 0, dt |-> ct, sb |-> child_height, db |-> cb]

\* The four cases for the left / right of the child.
overlap_lr(cl, cr, w, child_width) ==
    IF cl < 0
    THEN IF cr >= w
         THEN [sl |-> -cl, dl |-> 0, sr |-> w + (-cl), dr |-> w]
         ELSE [sl |-> -cl, dl |-> 0, sr |-> child_width, dr |-> cr]
    ELSE IF cr >= w
         THEN [sl |-> 0, dl |-> cl, sr |-> w - cl, dr |-> w]
         ELSE [sl |-> 0, dl |-> cl, sr |-> child_width, dr |-> cr]

\* A plausible slip: the early return is forgotten, so a child outside the
\* rectangle is sliced like one that overlaps it.
overlapping_region_no_early_return(r, c) ==
    LET ct == c.top - r.top
        cb == bottom(c) - r.top
        cl == c.left - r.left
        cr == right(c) - r.left
        v == overlap_tb(ct, cb, r.height, c.height)
        z == overlap_lr(cl, cr, r.width, c.width)
    IN  [hit |-> TRUE,
         dest |-> [top |-> v.dt, bottom |-> v.db, left |-> z.dl, right |-> z.dr],
         src |-> Rect(v.st, z.sl, v.sb, z.sr, v.sb - v.st, z.sr - z.sl)]

\* overlapping_region(rect, child): the destination slice (relative to the
\* rectangle's origin) and the source Rect (relative to the child's origin).
overlapping_region(r, c) ==
    LET t == r.top
        l == r.left
        h == r.height
        w == r.width
        ct == c.top - t
        cb == bottom(c) - t
        cl == c.left - l
        cr == right(c) - l
    IN  IF ct >= h \/ cb < 0 \/ cl >= w \/ cr < 0
        THEN NoRegion
        ELSE LET v == overlap_tb(ct, cb, h, c.height)
                 z == overlap_lr(cl, cr, w, c.width)
             IN  [hit |-> TRUE,
                  dest |-> [top |-> v.dt, bottom |-> v.db,
                            left |-> z.dl, right |-> z.dr],
                  src |-> Rect(v.st, z.sl, v.sb, z.sr, v.sb - v.st, z.sr - z.sl)]

(***************************************************************************)
(* The widget tree                                                         *)
(***************************************************************************)
\* The widgets of the model: P is the widget render / dispatch is called
\* on, A, B and G are widgets below it.
Widgets == {"P", "A", "B", "G"}

\* The cells of a grid of h rows and w columns.
Cells(h, w) == (0..(h - 1)) \X (0..(w - 1))

\* The bounding box of a widget, as overlapping_region reads it.
Box(w) ==
    [top |-> pos[w].top, left |-> pos[w].left,
     height |-> size[w].height, width |-> size[w].width]

(***************************************************************************)
(* numpy basic slicing, for the non-negative bounds render produces        *)
(***************************************************************************)
\* The number of indices slice(a, b) selects from an axis of length n.
slice_len(a, b, n) == Max(0, Min(b, n) - Min(a, n))

\* canvas_view[dest_slice]: the window of the destination buffer a view
\* covers, in the buffer's coordinates, after slicing by d.
sub_view(win, d) ==
    [top |-> win.top + Min(d.top, win.height),
     left |-> win.left + Min(d.left, win.width),
     height |-> slice_len(d.top, d.bottom, win.height),
     width |-> slice_len(d.left, d.right, win.width)]

\* Cell p of the buffer lies in the window.
InWin(p, win) ==
    /\ win.top <= p[1] /\ p[1] < win.top + win.height
    /\ win.left <= p[2] /\ p[2] < win.left + win.width

\* The cell of self.canvas[index_rect] that is assigned to cell p.
SrcCell(p, win, rc) == <<rc.top + (p[1] - win.top), rc.left + (p[2] - win.left)>>

\* self.canvas[index_rect] has the shape of the view (otherwise the
\* assignment raises or broadcasts).
ShapesMatch(w, win, rc) ==
    /\ rc.top >= 0 /\ rc.left >= 0
    /\ slice_len(rc.top, rc.bottom, size[w].height) = win.height
    /\ slice_len(rc.left, rc.right, size[w].width) = win.width

(***************************************************************************)
(* Widget.render                                                           *)
(***************************************************************************)
\* A plausible slip: the blank marker is taken from default_char.
is_painted_default_char(w, src) ==
    IF is_transparent[w] THEN canvas[w][src] # default_char[w] ELSE TRUE

\* A plausible slip: the opaque branch masks like the transparent one.
is_painted_always_masked(w, src) == canvas[w][src] # " "

\* Whether render copies the source cell src of widget w:
\* visible = source != " " if the widget is transparent, every cell otherwise.
is_painted(w, src) ==
    IF is_transparent[w] THEN canvas[w][src] # " " ELSE TRUE

\* The widget's own paint: lines 329-337 of render.
paint_own(w, buf, win, rc) ==
    IF ~ShapesMatch(w, win, rc)
    THEN [buf EXCEPT !.err = TRUE]
    ELSE LET cv == [p \in DOMAIN buf.canvas |->
                      IF InWin(p, win) /\ is_painted(w, SrcCell(p, win, rc))
                      THEN canvas[w][SrcCell(p, win, rc)]
                      ELSE buf.canvas[p]]
             cl == [p \in DOMAIN buf.colors |->
                      IF InWin(p, win) /\ is_painted(w, SrcCell(p, win, rc))
                      THEN colors[w][SrcCell(p, win, rc)]
                      ELSE buf.colors[p]]
         IN  [canvas |-> cv, colors |-> cl, err |-> FALSE,
              log |-> Append(buf.log,
                        [widget |-> w, win |-> win, rc |-> rc,
                         canvas_before |-> buf.canvas, colors_before |-> buf.colors,
                         canvas_after |-> cv, colors_after |-> cl])]

\* A plausible slip: only is_visible is tested.
is_skipped_visible_only(c) == ~is_visible[c]

\* The test of line 342: the child is not rendered.
is_skipped(c) == ~is_visible[c] \/ ~is_enabled[c]

\* A plausible slip: the children are painted topmost first.
Reverse(s) == [i \in 1..Len(s) |-> s[Len(s) + 1 - i]]
render_order_reversed(kids, w) == Reverse(kids[w])

\* The order in which render visits the children: list order.
render_order(kids, w) == kids[w]

RECURSIVE render(_, _, _, _, _)
RECURSIVE render_children(_, _, _, _, _, _)

\* The loop over the children: lines 341-347 of render, from child k on.
render_children(kids, w, k, buf, win, rc) ==
    IF buf.err \/ k > Len(render_order(kids, w))
    THEN buf
    ELSE LET c == render_order(kids, w)[k]
             reg == overlapping_region(rc, Box(c))
         IN  IF is_skipped(c) \/ ~reg.hit
             THEN render_children(kids, w, k + 1, buf, win, rc)
             ELSE render_children(kids, w, k + 1,
                      render(kids, c, buf, sub_view(win, reg.dest), reg.src),
                      win, rc)

\* Widget.render(canvas_view, colors_view, rect), with the tree given by kids.
render(kids, w, buf, win, rc) ==
    LET own == paint_own(w, buf, win, rc)
    IN  render_children(kids, w, 1, own, win, rc)

(***************************************************************************)
(* Widget.dispatch_press / dispatch_click / dispatch_paste                 *)
(***************************************************************************)
\* What a handler may return: True, False, or None (the base handlers).
Returns == {"True", "False", "None"}

\* Python truthiness of a handler's return value.
Truthy(r) == r = "True"

\* The handler of widget w that a dispatch of the given kind calls.
handler(kind, w) ==
    CASE kind = "press" -> on_press[w]
      [] kind = "click" -> on_click[w]
      [] kind = "paste" -> on_paste[w]

\* A plausible slip: the children are tried in list order, bottom-most first.
dispatch_order_list_order(kids, w) == kids[w]

\* The order in which a dispatch tries the children: reversed(self.children).
dispatch_order(kids, w) == Reverse(kids[w])

\* A plausible slip: the widget's own handler is called even though a child
\* handled the event.
own_handler_is_called_always(child_handled) == TRUE

\* "any(...) or self.on_click(...)": the own handler is evaluated only when
\* no child's dispatch returned a true value.
own_handler_is_called(child_handled) == ~child_handled

\* A plausible slip: a child that is not visible is passed over as well.
is_passed_over_when_hidden(c) == ~is_enabled[c] \/ ~is_visible[c]

\* "if widget.is_enabled": the children a dispatch does not try.
is_passed_over(c) == ~is_enabled[c]

RECURSIVE dispatch(_, _, _, _)
RECURSIVE dispatch_children(_, _, _, _, _)

\* any(widget.dispatch(event) for widget in reversed(self.children)
\*     if widget.is_enabled), from the k-th widget tried on.
dispatch_children(kind, kids, w, k, log) ==
    IF k > Len(dispatch_order(kids, w))
    THEN [ret |-> "False", calls |-> log]
    ELSE LET c == dispatch_order(kids, w)[k]
         IN  IF is_passed_over(c)
             THEN dispatch_children(kind, kids, w, k + 1, log)
             ELSE LET r == dispatch(kind, kids, c, log)
                  IN  IF Truthy(r.ret)
                      THEN [ret |-> "True", calls |-> r.calls]
                      ELSE dispatch_children(kind, kids, w, k + 1, r.calls)

\* Widget.dispatch_press / dispatch_click / dispatch_paste on widget w.
dispatch(kind, kids, w, log) ==
    LET below == dispatch_children(kind, kids, w, 1, log)
    IN  IF own_handler_is_called(Truthy(below.ret))
        THEN [ret |-> handler(kind, w), calls |-> Append(below.calls, w)]
        ELSE below

(***************************************************************************)
(* The VT100 input decoder: console_input.py                               *)
(*                                                                         *)
(* A string is a sequence of one-character strings; "ESC" stands for the   *)
(* character \x1b, "TAB" for \t, "NL" for \n and "U+DCA1" for the          *)
(* surrogate-escaped byte 0xA1.                                            *)
(***************************************************************************)
ESC == "ESC"

\* The terminator searched for by suffix.find("\x1b[201~").
PASTE_END == <<ESC, "[", "2", "0", "1", "~">>

\* ord(c) - ord("0") for a decimal digit.
DigitValue(c) ==
    CASE c = "0" -> 0 [] c = "1" -> 1 [] c = "2" -> 2 [] c = "3" -> 3
      [] c = "4" -> 4 [] c = "5" -> 5 [] c = "6" -> 6 [] c = "7" -> 7
      [] c = "8" -> 8 [] c = "9" -> 9

Digits == {"0", "1", "2", "3", "4", "5", "6", "7", "8", "9"}

\* ord(c) for the characters of the model.
Ord(c) ==
    CASE c = "TAB" -> 9 [] c = "NL" -> 10 [] c = ESC -> 27
      [] c = " " -> 32 [] c = "!" -> 33 [] c = "#" -> 35 [] c = "$" -> 36
      [] c \in Digits -> 48 + DigitValue(c)
      [] c = ";" -> 59 [] c = "<" -> 60
      [] c = "A" -> 65 [] c = "B" -> 66 [] c = "E" -> 69 [] c = "M" -> 77
      [] c = "O" -> 79 [] c = "[" -> 91
      [] c = "a" -> 97 [] c = "d" -> 100 [] c = "e" -> 101 [] c = "h" -> 104
      [] c = "l" -> 108 [] c = "m" -> 109 [] c = "o" -> 111 [] c = "r" -> 114
      [] c = "w" -> 119 [] c = "x" -> 120 [] c = "y" -> 121 [] c = "~" -> 126
      [] c = "U+DCA1" -> 56481

\* events.KeyPressEvent(key, mods), events.PasteEvent(paste) and
\* events.MouseEvent(position, button, event_type).
KeyPressEvent(key, mods) == [type |-> "key", key |-> key, mods |-> mods]
PasteEvent(paste) == [type |-> "paste", paste |-> paste]
MouseEvent(position, info) ==
    [type |-> "mouse", position |-> position,
     button |-> info[1], event_type |-> info[2]]
NO_MODS == "NO_MODS"
ALT == "ALT"

\* The table entries that are not key presses.
KeyIgnore == [type |-> "Key.Ignore"]
KeyPaste == [type |-> "Key.Paste"]
ESCAPE == KeyPressEvent(<<"Key.Escape">>, NO_MODS)

\* ansi_escapes.ANSI_ESCAPES: known escape sequences (a bare printable
\* character, a control character, named keys, an ignored sequence and the
\* start of a bracketed paste).
ANSI_ESCAPES ==
    (<<ESC>> :> ESCAPE)
    @@ (<<"TAB">> :> KeyPressEvent(<<"Key.Tab">>, NO_MODS))
    @@ (<<"a">> :> KeyPressEvent(<<"a">>, NO_MODS))
    @@ (<<ESC, "[", "A">> :> KeyPressEvent(<<"Key.Up">>, NO_MODS))
    @@ (<<ESC, "[", "B">> :> KeyPressEvent(<<"Key.Down">>, NO_MODS))
    @@ (<<ESC, "[", "E">> :> KeyIgnore)
    @@ (<<ESC, "[", "2", "0", "0", "~">> :> KeyPaste)

\* mouse_bindings.TYPICAL, TERM_SGR and URXVT: event code -> (button, type).
TYPICAL ==
    (32 :> <<"LEFT", "MOUSE_DOWN">>) @@ (35 :> <<"NO_BUTTON", "MOUSE_UP">>)
TERM_SGR ==
    (<<0, "M">> :> <<"LEFT", "MOUSE_DOWN">>)
    @@ (<<0, "m">> :> <<"LEFT", "MOUSE_UP">>)
    @@ (<<2, "M">> :> <<"RIGHT", "MOUSE_DOWN">>)
URXVT ==
    (32 :> <<"UNKNOWN_BUTTON", "MOUSE_DOWN">>)
    @@ (35 :> <<"UNKNOWN_BUTTON", "MOUSE_UP">>)

\* s[i:] and s[:i] of Python, for 0 <= i.
From(s, i) == SubSeq(s, i + 1, Len(s))
UpTo(s, i) == SubSeq(s, 1, Min(i, Len(s)))

\* MOUSE_RE.match(prefix) is not None, for
\* MOUSE_RE = "^" + re.escape("\x1b[") + r"(<?[\d;]+[mM]|M...)\Z".
MOUSE_RE_match(prefix) ==
    /\ Len(prefix) >= 3
    /\ prefix[1] = ESC /\ prefix[2] = "["
    /\ \/ LET body == IF prefix[3] = "<" THEN From(prefix, 3) ELSE From(prefix, 2)
          IN  /\ Len(body) >= 2
              /\ body[Len(body)] \in {"m", "M"}
              /\ \A i \in 1..(Len(body) - 1) : body[i] \in Digits \cup {";"}
       \/ /\ Len(prefix) = 6
          /\ prefix[3] = "M"
          /\ \A i \in 4..6 : prefix[i] # "NL"

\* s.split(";")
RECURSIVE split(_)
split(s) ==
    IF \E i \in 1..Len(s) : s[i] = ";"
    THEN LET i == CHOOSE k \in 1..Len(s) :
                    s[k] = ";" /\ \A j \in 1..(k - 1) : s[j] # ";"
         IN  <<SubSeq(s, 1, i - 1)>> \o split(From(s, i))
    ELSE <<s>>

\* int(s) for a string of decimal digits; "ValueError" for the empty string.
RECURSIVE int(_)
int(s) ==
    IF s = <<>> THEN "ValueError"
    ELSE IF Len(s) = 1 THEN DigitValue(s[1])
    ELSE int(UpTo(s, Len(s) - 1)) * 10 + DigitValue(s[Len(s)])

\* mouse_event, x, y = map(int, fields): the three numbers, or the failure to
\* unpack or to convert.
unpack_ints(fields) ==
    IF Len(fields) # 3 \/ \E i \in 1..3 : fields[i] = <<>>
    THEN [raised |-> TRUE]
    ELSE [raised |-> FALSE,
          mouse_event |-> int(fields[1]), x |-> int(fields[2]), y |-> int(fields[3])]

\* table.get(key)
get(table, key) == IF key \in DOMAIN table THEN <<table[key]>> ELSE <<>>

\* A code that is not in the table is an error.
mouse_events_unknown_raises(mouse_info, y, x) ==
    [raised |-> mouse_info = <<>>,
     events |-> IF mouse_info = <<>> THEN <<>>
                ELSE <<MouseEvent(<<y, x>>, mouse_info[1])>>]

\* The events _create_mouse_event appends to _EVENTS (none if the code is not
\* in the table), or the exception it raises.
mouse_events(mouse_info, y, x) ==
    [raised |-> FALSE,
     events |-> IF mouse_info = <<>> THEN <<>>
                ELSE <<MouseEvent(<<y, x>>, mouse_info[1])>>]

\* A plausible slip: the surrogate-escaped byte is not corrected.
typical_coordinate_uncorrected(c) == Ord(c) - 32

\* "if x >= 0xDC00: x -= 0xDC00" and "x -= 32", for x = ord(c).
typical_coordinate(c) ==
    (IF Ord(c) >= 56320 THEN Ord(c) - 56320 ELSE Ord(c)) - 32

\* _create_mouse_event(data)
_create_mouse_event(data) ==
    IF data[3] = "M"
    THEN LET mouse_event == Ord(data[4])
         IN  mouse_events(get(TYPICAL, mouse_event),
                          typical_coordinate(data[6]), typical_coordinate(data[5]))
    ELSE IF data[3] = "<"
    THEN LET n == unpack_ints(split(SubSeq(data, 4, Len(data) - 1)))
         IN  IF n.raised THEN [raised |-> TRUE, events |-> <<>>]
             ELSE mouse_events(get(TERM_SGR, <<n.mouse_event, data[Len(data)]>>),
                               n.y - 1, n.x - 1)
    ELSE LET n == unpack_ints(split(SubSeq(data, 3, Len(data) - 1)))
         IN  IF n.raised THEN [raised |-> TRUE, events |-> <<>>]
             ELSE mouse_events(get(URXVT, n.mouse_event), n.y - 1, n.x - 1)

\* suffix.find("\x1b[201~")
find_paste_end(suffix) ==
    LET hits == { i \in 0..(Len(suffix) - Len(PASTE_END)) :
                    SubSeq(suffix, i + 1, i + Len(PASTE_END)) = PASTE_END }
    IN  IF hits = {} THEN -1 ELSE CHOOSE i \in hits : \A j \in hits : i <= j

\* A plausible slip: the prefixes are tried shortest first.
prefix_lengths_shortest_first(data) == [k \in 1..Len(data) |-> k]

\* range(len(data), 0, -1): the prefix lengths tried, longest first.
prefix_lengths(data) == [k \in 1..Len(data) |-> Len(data) + 1 - k]

\* What one call of _find_longest_match does: the suffix it returns, the
\* events it appends to _EVENTS, and whether it raised.
Matched(suffix, events) == [suffix |-> suffix, events |-> events, raised |-> FALSE]

\* A plausible slip: the terminator is left in the buffer.
paste_match_keeps_terminator(suffix) ==
    LET j == find_paste_end(suffix)
    IN  IF j = -1
        THEN Matched(<<>>, <<PasteEvent(suffix)>>)
        ELSE Matched(From(suffix, j), <<PasteEvent(UpTo(suffix, j))>>)

\* "case Key.Paste": the paste runs to the terminator, or to the end of the
\* data if there is none.
paste_match(suffix) ==
    LET j == find_paste_end(suffix)
    IN  IF j = -1
        THEN Matched(<<>>, <<PasteEvent(suffix)>>)
        ELSE Matched(From(suffix, j + 6), <<PasteEvent(UpTo(suffix, j))>>)

\* A plausible slip: Escape is emitted and the rest is matched again.
escape_match_retries(data, suffix) == Matched(suffix, <<ESCAPE>>)

\* "case KeyPressEvent.ESCAPE if suffix and suffix not in ANSI_ESCAPES":
\* alt + character, or the whole data as one unrecognized key.
escape_match(data, suffix) ==
    IF Len(suffix) = 1
    THEN Matched(<<>>, <<KeyPressEvent(suffix, ALT)>>)
    ELSE Matched(<<>>, <<KeyPressEvent(data, NO_MODS)>>)

\* The body of the loop of _find_longest_match for the k-th prefix tried,
\* and the fallback after the loop.
RECURSIVE try_prefix(_, _)
try_prefix(data, k) ==
    LET order == prefix_lengths(data)
    IN  IF k > Len(order)
        THEN LET i == order[Len(order)]
             IN  Matched(From(data, i), <<KeyPressEvent(UpTo(data, i), NO_MODS)>>)
        ELSE
        LET i == order[k]
            prefix == UpTo(data, i)
            suffix == From(data, i)
            entry == get(ANSI_ESCAPES, prefix)
        IN  IF MOUSE_RE_match(prefix)
            THEN LET m == _create_mouse_event(prefix)
                 IN  [suffix |-> suffix, events |-> m.events, raised |-> m.raised]
            ELSE IF entry = <<>>
            THEN try_prefix(data, k + 1)
            ELSE IF entry[1] = KeyIgnore
            THEN Matched(suffix, <<>>)
            ELSE IF entry[1] = KeyPaste
            THEN paste_match(suffix)
            ELSE IF entry[1] = ESCAPE /\ suffix # <<>> /\ suffix \notin DOMAIN ANSI_ESCAPES
            THEN escape_match(data, suffix)
            ELSE Matched(suffix, <<entry[1]>>)

\* _find_longest_match(data), for data that is not empty.
_find_longest_match(data) == try_prefix(data, 1)

\* The loop "while data: data = _find_longest_match(data)" of read_keys: the
\* events appended to _EVENTS, the number of calls made, and whether a call
\* raised.
RECURSIVE match_all(_, _, _)
match_all(data, events, n) ==
    IF data = <<>>
    THEN [events |-> events, matches |-> n, raised |-> FALSE]
    ELSE LET m == _find_longest_match(data)
         IN  IF m.raised
             THEN [events |-> events \o m.events, matches |-> n + 1, raised |-> TRUE]
             ELSE match_all(m.suffix, events \o m.events, n + 1)

\* The calls of _find_longest_match made by that loop: the data handed to
\* each, the suffix it returned, the events it appended, whether it raised.
RECURSIVE match_all_calls(_)
match_all_calls(data) ==
    IF data = <<>>
    THEN <<>>
    ELSE LET m == _find_longest_match(data)
             call == [data |-> data, suffix |-> m.suffix, events |-> m.events,
                      raised |-> m.raised]
         IN  IF m.raised
             THEN <<call>>
             ELSE <<call>> \o match_all_calls(m.suffix)

\* Where in the input stream the events that match_all appends began: the
\* offset of the first character of the data handed to the call of
\* _find_longest_match that appended the event; at is the offset of data.
RECURSIVE match_all_at(_, _)
match_all_at(data, at) ==
    IF data = <<>>
    THEN <<>>
    ELSE LET m == _find_longest_match(data)
             here == [k \in 1..Len(m.events) |-> at]
         IN  IF m.raised
             THEN here
             ELSE here \o match_all_at(m.suffix, at + Len(data) - Len(m.suffix))

\* The case of read_from_input that an event matches.
dispatch_method(ev) ==
    CASE ev.type = "key" -> "dispatch_key"
      [] ev.type = "mouse" -> "dispatch_mouse"
      [] ev.type = "paste" -> "dispatch_paste"

\* The calls made if the loop took the events newest first.
read_from_input_newest_first(evs, ats) ==
    [k \in 1..Len(evs) |->
        [method |-> dispatch_method(evs[Len(evs) + 1 - k]),
         event |-> evs[Len(evs) + 1 - k],
         at |-> ats[Len(evs) + 1 - k]]]

\* read_from_input: "for event in env_in.events()" makes one dispatch call
\* for each event, in the order the generator yields them.
read_from_input(evs, ats) ==
    [k \in 1..Len(evs) |->
        [method |-> dispatch_method(evs[k]), event |-> evs[k], at |-> ats[k]]]

(***************************************************************************)
(* The widgets a specification starts from                                 *)
(***************************************************************************)
NoChildren == [w \in Widgets |-> <<>>]

\* The trees: A then B below P, with G below A, below B, beside them or
\* detached; and the chain P - A - (B, G).
TreeShapes ==
    { [NoChildren EXCEPT !["P"] = <<"A", "B">>, !["A"] = <<"G">>],
      [NoChildren EXCEPT !["P"] = <<"A", "B">>, !["B"] = <<"G">>],
      [NoChildren EXCEPT !["P"] = <<"A", "B", "G">>],
      [NoChildren EXCEPT !["P"] = <<"A", "B">>],
      [NoChildren EXCEPT !["P"] = <<"A">>, !["A"] = <<"B", "G">>] }

\* The sizes the widgets are constructed with.
Sizes ==
    [w \in Widgets |->
        CASE w = "P" -> [height |-> ViewH, width |-> ViewW]
          [] w = "A" -> [height |-> ViewH, width |-> ViewW - 1]
          [] w = "B" -> [height |-> ViewH, width |-> ViewW]
          [] w = "G" -> [height |-> ViewH, width |-> ViewW - 1]]

\* The positions the widgets are constructed with: children that lie inside
\* their parent, straddle its edges, and overlap each other.
Layouts ==
    { [w \in Widgets |->
        CASE w = "P" -> [top |-> 0, left |-> 0]
          [] w = "A" -> [top |-> 0, left |-> 0]
          [] w = "B" -> [top |-> 1, left |-> 1]
          [] w = "G" -> [top |-> 0, left |-> 1]],
      [w \in Widgets |->
        CASE w = "P" -> [top |-> 0, left |-> 0]
          [] w = "A" -> [top |-> 0, left |-> -1]
          [] w = "B" -> [top |-> 0, left |-> 1]
          [] w = "G" -> [top |-> -1, left |-> 0]] }

\* The default characters the widgets are constructed with.
DefaultChars ==
    [w \in Widgets |-> IF w \in {"A", "G"} THEN "." ELSE " "]

\* The character each widget writes as text into its canvas.
Ink(w) ==
    CASE w = "P" -> "p" [] w = "A" -> "a" [] w = "B" -> "b" [] w = "G" -> "g"

PatternOffset(w) ==
    CASE w = "P" -> 0 [] w = "A" -> 1 [] w = "B" -> 2 [] w = "G" -> 0

\* Canvas contents: every canvas holds text, spaces and dots, in one of
\* three arrangements.
Glyph(w, p, phase) ==
    LET k == (p[1] + 2 * p[2] + PatternOffset(w) + phase) % 3
    IN  CASE k = 0 -> Ink(w) [] k = 1 -> " " [] k = 2 -> "."

CanvasesOf(phase) ==
    [w \in Widgets |->
        [p \in Cells(Sizes[w].height, Sizes[w].width) |-> Glyph(w, p, phase)]]

Canvases == { CanvasesOf(phase) : phase \in 0..2 }

\* Colours: two colour pairs per widget.
Colors ==
    [w \in Widgets |->
        [p \in Cells(Sizes[w].height, Sizes[w].width) |-> <<w, (p[1] + p[2]) % 2>>]]

\* What the destination holds before a render: non-blank everywhere, or
\* non-blank and blank cells.
Backgrounds(h, w) ==
    { [p \in Cells(h, w) |-> "#"],
      [p \in Cells(h, w) |-> IF (p[1] + p[2]) % 2 = 0 THEN "#" ELSE " "] }

\* The rectangles render is called with on P: all of P, and all of P but
\* its first column.
RenderRects ==
    { Rect(0, 0, ViewH, ViewW, ViewH, ViewW),
      Rect(0, 1, ViewH, ViewW, ViewH, ViewW - 1) }

OverlapIdle ==
    /\ child = [top |-> 0, left |-> 0, height |-> 0, width |-> 0]
    /\ region = [called |-> FALSE, idle |-> TRUE]

TreeIdle ==
    /\ children = NoChildren
    /\ pos = [w \in Widgets |-> [top |-> 0, left |-> 0]]
    /\ size = [w \in Widgets |-> [height |-> 0, width |-> 0]]
    /\ is_transparent = [w \in Widgets |-> FALSE]
    /\ is_visible = [w \in Widgets |-> TRUE]
    /\ is_enabled = [w \in Widgets |-> TRUE]
    /\ default_char = [w \in Widgets |-> " "]
    /\ canvas = [w \in Widgets |-> <<>>]
    /\ colors = [w \in Widgets |-> <<>>]

RenderIdle ==
    /\ canvas_view = <<>>
    /\ colors_view = <<>>
    /\ painted = <<>>
    /\ render_raised = FALSE

\* The handlers of the base class Widget return None.
BaseHandlers == [w \in Widgets |-> "None"]

DispatchIdle ==
    /\ on_press = BaseHandlers
    /\ on_click = BaseHandlers
    /\ on_paste = BaseHandlers
    /\ event = "none"
    /\ calls = <<>>
    /\ handled = "pending"

DecoderIdle ==
    /\ feed = <<>>
    /\ stdin = <<>>
    /\ _EVENTS = <<>>
    /\ yielded = <<>>
    /\ reads = <<>>
    /\ matches = 0
    /\ read_raised = FALSE
    /\ match_calls = <<>>

(***************************************************************************)
(* App._run_async: determine_nclicks                                       *)
(***************************************************************************)
NO_BUTTON == "NO_BUTTON"
MOUSE_DOWN == "MOUSE_DOWN"

\* App.double_click_timeout; time is counted in units of the timeout.
double_click_timeout == 1

\* MouseEvent(*partial_mouse_event, nclicks)
ClickEvent(partial_mouse_event, nclicks) ==
    [button |-> partial_mouse_event.button,
     event_type |-> partial_mouse_event.event_type,
     nclicks |-> nclicks]

\* The condition with "and" in place of "or".
is_new_click_needs_both(last_button, last_time, button, current_time) ==
    /\ last_button # button
    /\ current_time - last_time > double_click_timeout

\* last_mouse_button is not partial_mouse_event.button
\* or current_time - last_mouse_time > self.double_click_timeout
is_new_click(last_button, last_time, button, current_time) ==
    \/ last_button # button
    \/ current_time - last_time > double_click_timeout

\* A count that never wraps.
next_nclicks_unbounded(n) == n + 1

\* last_mouse_nclicks % 3 + 1
next_nclicks(n) == (n % 3) + 1

\* A non-down event that stamps the time.
after_other_event_stamps_time(st, current_time) ==
    [st EXCEPT !.time = current_time]

\* The nonlocal state after an event that is not a mouse-down.
after_other_event(st, current_time) == st

\* determine_nclicks: the MouseEvent returned and the nonlocal variables
\* (last_mouse_button, last_mouse_time, last_mouse_nclicks) afterwards.
determine_nclicks(st, partial_mouse_event, current_time) ==
    IF partial_mouse_event.event_type # MOUSE_DOWN
    THEN [event |-> ClickEvent(partial_mouse_event, 0),
          state |-> after_other_event(st, current_time)]
    ELSE LET new == is_new_click(st.button, st.time,
                                 partial_mouse_event.button, current_time)
             button == IF new THEN partial_mouse_event.button ELSE st.button
             nclicks == IF new THEN 1 ELSE next_nclicks(st.nclicks)
         IN  [event |-> ClickEvent(partial_mouse_event, nclicks),
              state |-> [button |-> button, time |-> current_time,
                         nclicks |-> nclicks]]

ClickIdle ==
    /\ now = 0
    /\ last_mouse_button = NO_BUTTON
    /\ last_mouse_time = 0
    /\ last_mouse_nclicks = 0
    /\ mouse_events_out = <<>>

(***************************************************************************)
(* behaviors.focus_behavior.FocusBehavior                                  *)
(***************************************************************************)
\* Widget.parent: the widget whose children list holds w, or "None".
parent(kids, w) ==
    IF \E q \in Widgets : \E i \in 1..Len(kids[q]) : kids[q][i] = w
    THEN CHOOSE q \in Widgets : \E i \in 1..Len(kids[q]) : kids[q][i] = w
    ELSE "None"

\* Widget.walk(reverse=True): the ancestors of w.
RECURSIVE walk_reverse(_, _)
walk_reverse(kids, w) ==
    IF parent(kids, w) = "None" THEN {}
    ELSE {parent(kids, w)} \cup walk_reverse(kids, parent(kids, w))

\* Widget.walk(): the descendants of w.
RECURSIVE walk(_, _)
walk(kids, w) ==
    LET direct == { kids[w][i] : i \in 1..Len(kids[w]) }
    IN  direct \cup UNION { walk(kids, c) : c \in direct }

\* list.remove(widget)
remove(list, widget) == SelectSeq(list, LAMBDA x : x # widget)

\* widget.pull_to_front(): the widget moves to the end of its parent's
\* children.
pull_to_front(kids, w) ==
    IF parent(kids, w) = "None" THEN kids
    ELSE [kids EXCEPT ![parent(kids, w)] = Append(remove(@, w), w)]

RECURSIVE pull_all_to_front(_, _)
pull_all_to_front(kids, ws) ==
    IF ws = {} THEN kids
    ELSE LET w == CHOOSE x \in ws : TRUE
         IN  pull_all_to_front(pull_to_front(kids, w), ws \ {w})

\* Widget.absolute_to_relative_coords (the root's coordinates are absolute).
RECURSIVE absolute_to_relative_coords(_, _, _, _)
absolute_to_relative_coords(kids, where, w, coords) ==
    IF parent(kids, w) = "None" THEN coords
    ELSE LET yx == absolute_to_relative_coords(kids, where, parent(kids, w),
                                               coords)
         IN  <<yx[1] - where[w].top, yx[2] - where[w].left>>

\* Widget.collides_coords
collides_coords(kids, where, extent, w, coords) ==
    LET yx == absolute_to_relative_coords(kids, where, w, coords)
    IN  /\ 0 <= yx[1] /\ yx[1] < extent[w].height
        /\ 0 <= yx[2] /\ yx[2] < extent[w].width

\* deque.rotate(n) for n = -1 and n = 1
rotate(dq, n) ==
    IF dq = <<>> THEN dq
    ELSE IF n = -1 THEN Append(Tail(dq), Head(dq))
    ELSE <<dq[Len(dq)]>> \o SubSeq(dq, 1, Len(dq) - 1)

\* while (widget := focus_widgets[0]()) is None: focus_widgets.popleft()
RECURSIVE popleft_dead(_, _)
popleft_dead(dq, live) ==
    IF dq # <<>> /\ Head(dq) \notin live THEN popleft_dead(Tail(dq), live)
    ELSE dq

\* while (widget := focus_widgets[-1]()) is None: focus_widgets.pop()
RECURSIVE pop_dead(_, _)
pop_dead(dq, live) ==
    IF dq # <<>> /\ dq[Len(dq)] \notin live
    THEN pop_dead(SubSeq(dq, 1, Len(dq) - 1), live)
    ELSE dq

\* A loop that pops every head, dead or not, until self is the head.
rotate_to_by_popping(dq, live, self) ==
    LET k == CHOOSE i \in 1..Len(dq) :
                 dq[i] = self /\ \A j \in 1..(i - 1) : dq[j] # self
    IN  SubSeq(dq, k, Len(dq))

\* The loop at the end of focus: dead heads are popped and live ones rotated
\* to the back until self is the head.
RECURSIVE rotate_to(_, _, _)
rotate_to(dq, live, self) ==
    IF Head(dq) = self THEN dq
    ELSE IF Head(dq) \notin live THEN rotate_to(Tail(dq), live, self)
    ELSE rotate_to(rotate(dq, -1), live, self)

\* Every widget that was focused is blurred.
blurred_by_focus_all(was_focused, ancestors) == was_focused

\* focused - ancestors
blurred_by_focus(was_focused, ancestors) == was_focused \ ancestors

\* How often a hook was called: once for each widget of ws.
Once(ws) == [w \in Widgets |-> IF w \in ws THEN 1 ELSE 0]
AddCalls(f, g) == [w \in Widgets |-> f[w] + g[w]]

\* self.focus(): the children lists, the deque and the focus set
\* afterwards, and the hooks called.
focus(kids, dq, foc, live, capable, ptf, self) ==
    LET ancestors == (walk_reverse(kids, self) \cap capable) \cup {self}
        blurred == blurred_by_focus(foc, ancestors)
        needs_focus == ancestors \ foc
    IN  [children |-> pull_all_to_front(kids, {w \in needs_focus : ptf[w]}),
         focus_widgets |-> rotate_to(dq, live, self),
         focused |-> ancestors,
         on_blur |-> Once(blurred),
         on_focus |-> Once(needs_focus),
         target |-> self]

\* A blur that takes the focus from every widget.
blur_everything(kids, dq, foc, self) ==
    [children |-> kids,
     focus_widgets |-> dq,
     focused |-> IF self \in foc THEN {} ELSE foc,
     on_blur |-> Once(IF self \in foc THEN foc ELSE {}),
     on_focus |-> Once({}),
     target |-> "None"]

\* self.blur()
blur(kids, dq, foc, self) ==
    [children |-> kids,
     focus_widgets |-> dq,
     focused |-> foc \ {self},
     on_blur |-> Once({self} \cap foc),
     on_focus |-> Once({}),
     target |-> "None"]

\* The deque is always rotated.
rotation_before_next_always(any_focused) == -1

\* if self.any_focused: focus_widgets.rotate(-1)
rotation_before_next(any_focused) == IF any_focused THEN -1 ELSE 0

\* self.focus_next()
focus_next(kids, dq, foc, live, capable, ptf) ==
    LET n == rotation_before_next(foc # {})
        rotated == IF n = 0 THEN dq ELSE rotate(dq, n)
        pruned == popleft_dead(rotated, live)
    IN  focus(kids, pruned, foc, live, capable, ptf, Head(pruned))

\* self.focus_previous()
focus_previous(kids, dq, foc, live, capable, ptf) ==
    LET pruned == IF foc # {} THEN rotate(pop_dead(dq, live), 1)
                  ELSE popleft_dead(dq, live)
    IN  focus(kids, pruned, foc, live, capable, ptf, Head(pruned))

\* What a tab does: the two methods exchanged.
tab_method_swapped(shift) == IF shift THEN "focus_next" ELSE "focus_previous"

\* if key_event.mods.shift: self.focus_previous() else: self.focus_next()
tab_method(shift) == IF shift THEN "focus_previous" ELSE "focus_next"

\* The focus change of a mouse event, with the event type ignored.
mouse_method_any_type(event_type, is_focused, collides) ==
    IF ~is_focused /\ collides THEN "focus"
    ELSE IF is_focused /\ ~collides THEN "blur"
    ELSE "none"

\* dispatch_mouse: the method called before the event is passed on.
mouse_method(event_type, is_focused, collides) ==
    IF event_type # MOUSE_DOWN THEN "none"
    ELSE IF ~is_focused /\ collides THEN "focus"
    ELSE IF is_focused /\ ~collides THEN "blur"
    ELSE "none"

\* A plausible slip: every child is tried, whatever the others returned.
any_stops_never(ret) == FALSE

\* any(...): the generator is not advanced past the first true value.
any_stops(ret) == Truthy(ret)

RECURSIVE dispatch_key(_, _, _, _, _, _)
RECURSIVE dispatch_key_children(_, _, _, _, _, _, _)

\* any(widget.dispatch_key(key_event) for widget in reversed(self.children)
\*     if widget.is_enabled), from the k-th widget tried on: the value and the
\* calls made, in order.
dispatch_key_children(kids, foc, capable, w, k, key, shift) ==
    IF k > Len(dispatch_order(kids, w))
    THEN [ret |-> "False", calls |-> <<>>]
    ELSE LET c == dispatch_order(kids, w)[k]
         IN  IF is_passed_over(c)
             THEN dispatch_key_children(kids, foc, capable, w, k + 1, key, shift)
             ELSE LET r == dispatch_key(kids, foc, capable, c, key, shift)
                  IN  IF any_stops(r.ret)
                      THEN r
                      ELSE LET rest == dispatch_key_children(
                                           kids, foc, capable, w, k + 1, key, shift)
                           IN  [ret |-> IF Truthy(r.ret) THEN "True" ELSE rest.ret,
                                calls |-> r.calls \o rest.calls]

\* The key dispatch of the base class Widget: the children, topmost first,
\* then the widget's own handler if none of them handled the key.
super_dispatch_key(kids, foc, capable, w, key, shift) ==
    LET below == dispatch_key_children(kids, foc, capable, w, 1, key, shift)
    IN  IF own_handler_is_called(Truthy(below.ret))
        THEN [ret |-> handler("press", w),
              calls |-> Append(below.calls, [widget |-> w, call |-> "on_press"])]
        ELSE below

\* widget.dispatch_key(key_event): FocusBehavior.dispatch_key if the widget
\* is a FocusBehavior, the base class's dispatch otherwise.
dispatch_key(kids, foc, capable, w, key, shift) ==
    LET here == <<[widget |-> w, call |-> "dispatch_key"]>>
        up == super_dispatch_key(kids, foc, capable, w, key, shift)
    IN  IF w \notin capable
        THEN [ret |-> up.ret, calls |-> here \o up.calls]
        ELSE IF key # "tab"
        THEN IF w \in foc
             THEN [ret |-> up.ret, calls |-> here \o up.calls]
             ELSE [ret |-> "False", calls |-> here]
        ELSE [ret |-> "True",
              calls |-> here \o <<[widget |-> w, call |-> tab_method(shift)]>>]

NoCalls == [w \in Widgets |-> 0]

\* No operation yet.
NoOp ==
    [op |-> "none", self |-> "None", method |-> "none", target |-> "None",
     returned |-> "none", passed_on |-> FALSE, key |-> "none",
     shift |-> FALSE, event_type |-> "none", collides |-> FALSE,
     on_blur |-> NoCalls, on_focus |-> NoCalls,
     before |-> [focused |-> {}, focus_widgets |-> <<>>, alive |-> {},
                 children |-> NoChildren]]

NoRun == [head |-> "None", any_focused |-> FALSE, targets |-> <<>>]

FocusIdle ==
    /\ is_focusable = {}
    /\ ptf_on_focus = [w \in Widgets |-> TRUE]
    /\ alive = {}
    /\ focus_widgets = <<>>
    /\ focused = {}
    /\ last_op = NoOp
    /\ run = NoRun
    /\ key_calls = <<>>

(***************************************************************************)
(* Widget.add_widget, remove_widget and pull_to_front                      *)
(***************************************************************************)
\* list.index: is the widget in the list.
contains(list, widget) == \E i \in 1..Len(list) : list[i] = widget

\* remove_widget that ignores a widget that is not a child.
remove_widget_silent(kids, parents, self, widget) ==
    [raised |-> FALSE,
     children |-> [kids EXCEPT ![self] = remove(@, widget)],
     parent |-> [parents EXCEPT ![widget] = "None"]]

\* self.remove_widget(widget): list.remove raises ValueError if the widget
\* is not in self.children, and the assignment after it is not reached.
remove_widget(kids, parents, self, widget) ==
    IF ~contains(kids[self], widget)
    THEN [raised |-> TRUE, children |-> kids, parent |-> parents]
    ELSE [raised |-> FALSE,
          children |-> [kids EXCEPT ![self] = remove(@, widget)],
          parent |-> [parents EXCEPT ![widget] = "None"]]

\* self.add_widget(widget)
add_widget(kids, parents, self, widget) ==
    [raised |-> FALSE,
     children |-> [kids EXCEPT ![self] = Append(@, widget)],
     parent |-> [parents EXCEPT ![widget] = self]]

\* A pull_to_front that puts the widget first in the list.
pull_widget_to_back(kids, parents, self, widget) ==
    IF ~contains(kids[self], widget)
    THEN [raised |-> TRUE, children |-> kids, parent |-> parents]
    ELSE [raised |-> FALSE,
          children |-> [kids EXCEPT ![self] = <<widget>> \o remove(@, widget)],
          parent |-> parents]

\* self.pull_to_front(widget)
pull_widget_to_front(kids, parents, self, widget) ==
    IF ~contains(kids[self], widget)
    THEN [raised |-> TRUE, children |-> kids, parent |-> parents]
    ELSE [raised |-> FALSE,
          children |-> [kids EXCEPT ![self] = Append(remove(@, widget), widget)],
          parent |-> parents]

\* self.add_widgets(*widgets): add_widget for each widget, in order.
RECURSIVE add_widgets(_, _, _, _)
add_widgets(kids, parents, self, widgets) ==
    IF widgets = <<>>
    THEN [raised |-> FALSE, children |-> kids, parent |-> parents]
    ELSE LET one == add_widget(kids, parents, self, Head(widgets))
         IN  add_widgets(one.children, one.parent, self, Tail(widgets))

NoParents == [w \in Widgets |-> "None"]

NoTreeOp ==
    [op |-> "none", self |-> "None", widget |-> "None", raised |-> FALSE,
     before |-> [children |-> NoChildren, parent |-> NoParents]]

TreeOpIdle ==
    /\ widget_parent = NoParents
    /\ tree_op = NoTreeOp

(***************************************************************************)
(* Widget.normalize_canvas                                                 *)
(***************************************************************************)
ZWSP == "U+200B"    \* chr(0x200B), the zero-width space
FULL == "W"         \* a full-width character
COMBINING == "z"    \* a zero-width character

\* utils.character_width of one cell
character_width(ch) ==
    IF ch \in {ZWSP, COMBINING} THEN 0 ELSE IF ch = FULL THEN 2 ELSE 1

\* np.argwhere(char_widths == 2): the cells in row-major order.
argwhere(grid, rows, cols, width) ==
    LET order == [k \in 1..(rows * cols) |->
                     <<(k - 1) \div cols, (k - 1) % cols>>]
    IN  SelectSeq(order, LAMBDA p : character_width(grid[p]) = width)

\* The loop over where_fullwidth, from its k-th cell on.
RECURSIVE mark_fullwidth(_, _, _, _, _)
mark_fullwidth(grid, where_fullwidth, k, cols, default) ==
    IF k > Len(where_fullwidth) THEN [raised |-> FALSE, canvas |-> grid]
    ELSE LET y == where_fullwidth[k][1]
             x == where_fullwidth[k][2]
         IN  IF x = cols - 1 THEN [raised |-> TRUE, canvas |-> grid]
             ELSE IF grid[<<y, x + 1>>] # default
             THEN [raised |-> TRUE, canvas |-> grid]
             ELSE mark_fullwidth([grid EXCEPT ![<<y, x + 1>>] = ZWSP],
                                 where_fullwidth, k + 1, cols, default)

\* self.normalize_canvas(): the canvas afterwards and whether ValueError
\* was raised.
normalize_canvas(grid, rows, cols, default) ==
    LET where_fullwidth == argwhere(grid, rows, cols, 2)
        replaced == [p \in DOMAIN grid |->
                        IF character_width(grid[p]) = 0 THEN default
                        ELSE grid[p]]
    IN  mark_fullwidth(replaced, where_fullwidth, 1, cols, default)

NoNormOp == [called |-> FALSE, raised |-> FALSE, before |-> <<>>]

NormIdle == norm_op = NoNormOp

\* Nothing has been dispatched by read_from_input.
InputIdle ==
    /\ dispatched = <<>>
    /\ pending_at = <<>>

(***************************************************************************)
(* The event loop: App._run_async                                          *)
(*                                                                         *)
(* auto_render is a coroutine, read_from_input a callback attached to the  *)
(* input and on_start the user's coroutine; the loop runs one of them at a *)
(* time and takes the next one only when the one it runs awaits or         *)
(* returns.                                                                *)
(***************************************************************************)
\* A scheduler that could take another callback after any statement.
yields_control_anywhere(at) == TRUE

\* Where the loop gets control back: auto_render awaits only in
\* "await asyncio.sleep(self.render_interval)"; read_from_input is a plain
\* function, left only when it returns.
yields_control(at) == at \in {"sleep", "return"}

\* What the loop is executing after a step of task that leaves it at "at".
running_after(task, at) == IF yields_control(at) THEN "None" ELSE task

\* A step of task can be taken: the loop is executing it, or nothing.
may_run(task) == running = task \/ running = "None"

\* The widgets root.render() paints, in order: the widget, then the
\* children that are not skipped, each with what is below it.
RECURSIVE render_steps(_, _)
RECURSIVE render_steps_children(_, _, _)
render_steps_children(kids, w, k) ==
    IF k > Len(render_order(kids, w))
    THEN <<>>
    ELSE LET c == render_order(kids, w)[k]
         IN  (IF is_skipped(c) THEN <<>> ELSE render_steps(kids, c))
             \o render_steps_children(kids, w, k + 1)
render_steps(kids, w) == <<w>> \o render_steps_children(kids, w, 1)

\* The handlers a dispatch calls, in order, when none returns a true value:
\* those below the enabled children, topmost child first, then the widget's.
RECURSIVE dispatch_steps(_, _)
RECURSIVE dispatch_steps_children(_, _, _)
dispatch_steps_children(kids, w, k) ==
    IF k > Len(dispatch_order(kids, w))
    THEN <<>>
    ELSE LET c == dispatch_order(kids, w)[k]
         IN  (IF is_passed_over(c) THEN <<>> ELSE dispatch_steps(kids, c))
             \o dispatch_steps_children(kids, w, k + 1)
dispatch_steps(kids, w) == dispatch_steps_children(kids, w, 1) \o <<w>>

NoFrame == [w \in Widgets |-> [text |-> 0, ticks |-> 0]]
NoStart == [completed |-> 0, ticks |-> 0]
NotShown == [rendered |-> FALSE, frame |-> NoFrame, started |-> NoStart]

TaskIdle ==
    /\ running = "None"
    /\ render_at = "sleep"
    /\ render_todo = <<>>
    /\ frame = NoFrame
    /\ started = NoStart
    /\ shown = NotShown
    /\ renders = 0
    /\ text = [w \in Widgets |-> 0]
    /\ read_at = "return"
    /\ read_todo = <<>>
    /\ dispatch_todo = <<>>
    /\ completed = 0
    /\ arrived = 0
    /\ ticks = 0

(***************************************************************************)
(* TextAnimation: play, pause, stop, on_remove and _play_animation         *)
(*                                                                         *)
(* A task created by play is "created" until the loop runs it for the      *)
(* first time, "sleeping" in "await asyncio.sleep(...)", "cancelling" once *)
(* cancel() was called on it and until the loop delivers CancelledError,   *)
(* and then "cancelled"; "done" when _play_animation returned. A task that *)
(* play has not created yet is "unborn".                                   *)
(***************************************************************************)
Tasks == 1..MaxPlays

\* Task.cancel(): a task that has not finished is asked to stop; it gets
\* CancelledError at its await the next time the loop runs it.
cancel(at) == IF at \in {"created", "sleeping"} THEN "cancelling" ELSE at

\* pause: "if self._animation_task is not None: self._animation_task.cancel()"
pause(task, ats) ==
    IF task # 0 THEN [ats EXCEPT ![task] = cancel(ats[task])] ELSE ats

\* An on_remove that only calls super().on_remove().
on_remove_only_super(task, ats) == ats

\* on_remove: self.pause(), then super().on_remove().
on_remove(task, ats) == pause(task, ats)

\* The index play starts from.
play_from(i, n, rev) ==
    IF i = 0 /\ rev THEN n - 1
    ELSE IF i = n - 1 /\ ~rev THEN 0
    ELSE i

\* stop: "self._i = len(self.frames) - 1 if self.reverse else 0"
first_frame(n, rev) == IF rev THEN n - 1 ELSE 0

\* A plausible slip: the index is not set back when it leaves the frames.
advance_without_wrap(i, n, rev, lp) ==
    IF rev
    THEN [i |-> i - 1, returns |-> i - 1 < 0 /\ ~lp]
    ELSE [i |-> i + 1, returns |-> i + 1 = n /\ ~lp]

\* One pass of the loop of _play_animation after the sleep: the new index,
\* and whether the coroutine returns.
advance(i, n, rev, lp) ==
    IF rev
    THEN IF i - 1 < 0
         THEN [i |-> n - 1, returns |-> ~lp]
         ELSE [i |-> i - 1, returns |-> FALSE]
    ELSE IF i + 1 = n
         THEN [i |-> 0, returns |-> ~lp]
         ELSE [i |-> i + 1, returns |-> FALSE]

\* The last step was not the end of a sleep.
NoWake == [task |-> 0, from |-> 0, reverse |-> FALSE]

AnimIdle ==
    /\ frames = 0
    /\ loop = FALSE
    /\ reverse = FALSE
    /\ _i = 0
    /\ _animation_task = 0
    /\ task_at = [t \in Tasks |-> "unborn"]
    /\ removed = FALSE
    /\ advanced = FALSE
    /\ last_wake = NoWake

(***************************************************************************)
(* Widget.resize                                                           *)
(***************************************************************************)
\* A resize that allocates the new arrays and copies nothing.
resize_without_copy(old_canvas, old_colors, old_size, new_size, dchar, dpair) ==
    [canvas |-> [p \in Cells(new_size.height, new_size.width) |-> dchar],
     colors |-> [p \in Cells(new_size.height, new_size.width) |-> dpair]]

\* Widget.resize(size): np.full arrays of the new size, with the top-left
\* copy_h x copy_w block of the old arrays copied in.
resize(old_canvas, old_colors, old_size, new_size, dchar, dpair) ==
    LET copy_h == Min(old_size.height, new_size.height)
        copy_w == Min(old_size.width, new_size.width)
        copied(p) == p[1] < copy_h /\ p[2] < copy_w
    IN  [canvas |-> [p \in Cells(new_size.height, new_size.width) |->
                        IF copied(p) THEN old_canvas[p] ELSE dchar],
         colors |-> [p \in Cells(new_size.height, new_size.width) |->
                        IF copied(p) THEN old_colors[p] ELSE dpair]]

\* The children notified last first.
notify_children_reversed(kids, self, shape) ==
    [k \in 1..Len(kids[self]) |->
        [widget |-> kids[self][Len(kids[self]) + 1 - k], parent_shape |-> shape]]

\* "for child in self.children: child.update_geometry()", the last
\* statement of resize: the calls made, and the shape self.canvas has when
\* each is made.
notify_children(kids, self, shape) ==
    [k \in 1..Len(kids[self]) |->
        [widget |-> kids[self][k], parent_shape |-> shape]]

WHITE_ON_BLACK == <<"default", 0>>

ResizeIdle ==
    /\ default_color_pair = [w \in Widgets |-> WHITE_ON_BLACK]
    /\ resizes = <<>>
    /\ geometry_calls = <<>>

(***************************************************************************)
(* AutoPositionBehavior.update_geometry                                    *)
(*                                                                         *)
(* A hint is a fraction [num, den] whose product with a height or width    *)
(* is exact in floating point.                                             *)
(***************************************************************************)
Anchors == {"CENTER", "TOP_LEFT", "TOP_RIGHT", "BOTTOM_LEFT", "BOTTOM_RIGHT"}

\* Python's round(n * hint): to the nearest integer, a tie to the even one.
round(n, hint) ==
    LET num == n * hint.num
        q == num \div hint.den
        r == num % hint.den
    IN  IF 2 * r < hint.den THEN q
        ELSE IF 2 * r > hint.den THEN q + 1
        ELSE IF q % 2 = 0 THEN q ELSE q + 1

\* Widget.middle: (height // 2, width // 2), the centre of the widget's own
\* canvas.
middle(box) == [top |-> box.height \div 2, left |-> box.width \div 2]

\* (offset_top, offset_left) of update_geometry for a widget with the given
\* box: Widget.bottom is top + height and Widget.right is left + width.
anchor_offset(anc, box) ==
    CASE anc = "TOP_LEFT" -> [top |-> 0, left |-> 0]
      [] anc = "TOP_RIGHT" -> [top |-> 0, left |-> right(box)]
      [] anc = "BOTTOM_LEFT" -> [top |-> bottom(box), left |-> 0]
      [] anc = "BOTTOM_RIGHT" -> [top |-> bottom(box), left |-> right(box)]
      [] anc = "CENTER" -> middle(box)

\* AutoPositionBehavior.update_geometry: the new (top, left) of a widget
\* with the given box in a parent of size dim.
update_geometry(anc, box, dim, th, lh) ==
    [top |-> round(dim.height, th) - anchor_offset(anc, box).top,
     left |-> round(dim.width, lh) - anchor_offset(anc, box).left]

Half == [num |-> 1, den |-> 2]

AutoPosIdle ==
    /\ anchor = "TOP_LEFT"
    /\ top_hint = Half
    /\ left_hint = Half
    /\ geometry_updates = 0

MoreIdle ==
    /\ InputIdle
    /\ TaskIdle
    /\ AnimIdle
    /\ ResizeIdle
    /\ AutoPosIdle

LaterIdle ==
    /\ ClickIdle
    /\ FocusIdle
    /\ TreeOpIdle
    /\ NormIdle
    /\ MoreIdle

(***************************************************************************)
(* SpecRender: P.render(canvas_view, colors_view, rect)                    *)
(***************************************************************************)
RenderInit ==
    /\ children \in TreeShapes
    /\ pos \in Layouts
    /\ size = Sizes
    /\ is_transparent \in [Widgets -> BOOLEAN]
    /\ is_visible \in [Widgets -> BOOLEAN]
    /\ is_visible["P"]
    /\ is_enabled \in [Widgets -> BOOLEAN]
    /\ is_enabled["P"]
    /\ default_char = DefaultChars
    /\ canvas \in Canvases
    /\ colors = Colors
    /\ rect \in RenderRects
    /\ canvas_view \in Backgrounds(rect.height, rect.width)
    /\ colors_view = [p \in Cells(rect.height, rect.width) |-> <<"screen", 0>>]
    /\ painted = <<>>
    /\ render_raised = FALSE

\* P.render(canvas_view, colors_view, rect)
Render ==
    /\ painted = <<>>
    /\ LET out == render(children, "P",
                         [canvas |-> canvas_view, colors |-> colors_view,
                          err |-> FALSE, log |-> <<>>],
                         [top |-> 0, left |-> 0,
                          height |-> rect.height, width |-> rect.width],
                         rect)
       IN  /\ canvas_view' = out.canvas
           /\ colors_view' = out.colors
           /\ painted' = out.log
           /\ render_raised' = out.err
    /\ UNCHANGED <<rect, treeVars>>

RenderNext ==
    Render /\ UNCHANGED <<child, region, handlerVars, dispatchVars, decoderVars,
                        laterVars>>

InitRender ==
    RenderInit /\ OverlapIdle /\ DispatchIdle /\ DecoderIdle /\ LaterIdle

SpecRender == InitRender /\ [][RenderNext]_vars

(***************************************************************************)
(* SpecDispatch: P.dispatch_press / dispatch_click / dispatch_paste        *)
(***************************************************************************)
EventKinds == {"press", "click", "paste"}

\* A tree of widgets whose handlers for the kind of the event are
\* overridden, and an event about to be dispatched.
DispatchInit ==
    /\ children \in TreeShapes
    /\ pos \in Layouts
    /\ size = Sizes
    /\ is_transparent = [w \in Widgets |-> FALSE]
    /\ is_visible \in [Widgets -> BOOLEAN]
    /\ is_visible["P"]
    /\ is_enabled \in [Widgets -> BOOLEAN]
    /\ is_enabled["P"]
    /\ default_char = DefaultChars
    /\ canvas = CanvasesOf(0)
    /\ colors = Colors
    /\ event \in EventKinds
    /\ on_press \in IF event = "press" THEN [Widgets -> Returns] ELSE {BaseHandlers}
    /\ on_click \in IF event = "click" THEN [Widgets -> Returns] ELSE {BaseHandlers}
    /\ on_paste \in IF event = "paste" THEN [Widgets -> Returns] ELSE {BaseHandlers}
    /\ calls = <<>>
    /\ handled = "pending"

\* The dispatch of the pending event on P.
Dispatched(kind) ==
    /\ event = kind
    /\ handled = "pending"
    /\ LET out == dispatch(kind, children, "P", <<>>)
       IN  /\ calls' = out.calls
           /\ handled' = out.ret
    /\ UNCHANGED <<event, treeVars, handlerVars, overlapVars, renderVars,
                   decoderVars, laterVars>>

\* root.dispatch_press(key)
DispatchPress == Dispatched("press")

\* root.dispatch_click(mouse_event)
DispatchClick == Dispatched("click")

\* root.dispatch_paste(paste_event)
DispatchPaste == Dispatched("paste")

DispatchNext == DispatchPress \/ DispatchClick \/ DispatchPaste

InitDispatch ==
    /\ DispatchInit
    /\ OverlapIdle
    /\ RenderIdle
    /\ DecoderIdle
    /\ LaterIdle
    /\ rect = Rect(0, 0, 0, 0, 0, 0)

SpecDispatch == InitDispatch /\ [][DispatchNext]_vars

(***************************************************************************)
(* SpecDecoder: the terminal writes chunks to stdin and the event loop     *)
(* calls read_keys whenever stdin is readable.                             *)
(***************************************************************************)
UP == <<ESC, "[", "A">>
DOWN == <<ESC, "[", "B">>
PASTE_START == <<ESC, "[", "2", "0", "0", "~">>
HELLO == <<"h", "e", "l", "l", "o">>
WORLD == <<" ", "w", "o", "r", "l", "d">>

\* Mouse reports whose code is in no table: SGR, urxvt and legacy.
SGR_UNKNOWN == <<ESC, "[", "<", "9", ";", "1", ";", "2", "m">>
URXVT_UNKNOWN == <<ESC, "[", "9", ";", "1", ";", "2", "M">>
TYPICAL_UNKNOWN == <<ESC, "[", "M", "$", "!", "U+DCA1">>
UnknownReports == {SGR_UNKNOWN, URXVT_UNKNOWN, TYPICAL_UNKNOWN}

\* A key, a mouse report, a paste and an arrow key in a row.
SGR_DOWN == <<ESC, "[", "<", "0", ";", "1", ";", "2", "M">>
KEY_MOUSE_PASTE_KEY ==
    <<"a">> \o SGR_DOWN \o PASTE_START \o <<"x">> \o PASTE_END \o UP

\* A paste with an arrow key sequence and a mouse report inside, then a key.
PASTE_OF_ESCAPES == PASTE_START \o UP \o SGR_DOWN \o PASTE_END \o <<"a">>

\* A legacy report with a coordinate byte above 0x7F, read with
\* surrogateescape.
TYPICAL_HIGH == <<ESC, "[", "M", " ", "!", "U+DCA1">>

\* Strings MOUSE_RE accepts that do not hold three numbers: an empty field,
\* a single field, four fields.
SGR_EMPTY_FIELD == <<ESC, "[", "<", "0", ";", "M">>
URXVT_ONE_FIELD == <<ESC, "[", "5", "M">>
SGR_FOUR_FIELDS == <<ESC, "[", "<", "0", ";", "1", ";", "2", ";", "3", "M">>

\* What follows a report in the same chunk: nothing, a key, an arrow key.
Tails == { <<>>, <<"a">>, UP }

\* What the terminal sends: single keys, keys in a row, Escape followed by
\* other characters, pastes, and mouse reports in the three encodings.
Messages ==
    { r \o t : r \in UnknownReports, t \in Tails } \cup
    { <<ESC>>, <<"TAB">>, <<"a">>, <<"x">>, UP, DOWN,
      <<ESC, "[", "E">>,
      UP \o DOWN,
      <<ESC, "x">>, <<ESC, "x", "y">>, <<ESC, "a">>,
      PASTE_START,
      PASTE_START \o HELLO \o WORLD \o PASTE_END,
      PASTE_START \o <<"a">> \o PASTE_END \o UP,
      <<ESC, "[", "<", "0", ";", "1", ";", "2", "M">>,
      <<ESC, "[", "3", "2", ";", "1", "0", ";", "2", "M">>,
      <<ESC, "[", "M", " ", "!", "#">>,
      SGR_EMPTY_FIELD,
      KEY_MOUSE_PASTE_KEY,
      PASTE_OF_ESCAPES, TYPICAL_HIGH, URXVT_ONE_FIELD, SGR_FOUR_FIELDS,
      <<"a">> \o SGR_EMPTY_FIELD \o UP }

\* The ways a message arrives: whole, in two chunks split anywhere, and, if
\* it is short, one character per chunk.
Chunkings(msg) ==
    {<<msg>>}
    \cup { <<UpTo(msg, i), From(msg, i)>> : i \in 1..(Len(msg) - 1) }
    \cup IF Len(msg) <= MaxSlowLen
         THEN { [k \in 1..Len(msg) |-> <<msg[k]>>] }
         ELSE {}

DecoderInit ==
    /\ feed \in UNION { Chunkings(msg) : msg \in Messages }
    /\ stdin = <<>>
    /\ _EVENTS = <<>>
    /\ yielded = <<>>
    /\ reads = <<>>
    /\ matches = 0
    /\ read_raised = FALSE
    /\ match_calls = <<>>

\* The terminal writes the next chunk.
Send ==
    /\ feed # <<>>
    /\ stdin' = stdin \o Head(feed)
    /\ feed' = Tail(feed)
    /\ UNCHANGED <<_EVENTS, yielded, reads, matches, read_raised, match_calls>>
    /\ UNCHANGED <<overlapVars, treeVars, renderVars, handlerVars, dispatchVars,
                   laterVars>>

\* The number of characters read from the stream by the calls so far.
RECURSIVE StreamLen(_)
StreamLen(rs) == IF rs = <<>> THEN 0 ELSE Len(Head(rs)) + StreamLen(Tail(rs))

\* read_from_input, which runs read_keys() to exhaustion: everything
\* readable is read, matched until nothing is left, yielded and cleared from
\* _EVENTS, and each event yielded is dispatched. If a match raises, the
\* events appended so far stay in _EVENTS and nothing is dispatched.
ReadKeys ==
    /\ stdin # <<>>
    /\ LET data == stdin
           out == match_all(data, _EVENTS, 0)
           ats == pending_at \o match_all_at(data, StreamLen(reads))
       IN  /\ stdin' = <<>>
           /\ reads' = Append(reads, data)
           /\ matches' = out.matches
           /\ read_raised' = out.raised
           /\ match_calls' = match_all_calls(data)
           /\ IF out.raised
              THEN /\ _EVENTS' = out.events
                   /\ pending_at' = ats
                   /\ UNCHANGED <<yielded, dispatched>>
              ELSE /\ _EVENTS' = <<>>
                   /\ pending_at' = <<>>
                   /\ yielded' = yielded \o out.events
                   /\ dispatched' =
                          dispatched \o read_from_input(out.events, ats)
    /\ UNCHANGED feed
    /\ UNCHANGED <<overlapVars, treeVars, renderVars, handlerVars, dispatchVars,
                   clickVars, focusVars, treeOpVars, normVars, taskVars,
                   animVars, resizeVars, autoPosVars>>

DecoderNext == Send \/ ReadKeys

InitDecoder ==
    /\ DecoderInit
    /\ OverlapIdle
    /\ TreeIdle
    /\ RenderIdle
    /\ DispatchIdle
    /\ LaterIdle
    /\ rect = Rect(0, 0, 0, 0, 0, 0)

SpecDecoder == InitDecoder /\ [][DecoderNext]_vars

(***************************************************************************)
(* SpecClicks: read_from_input receives partial mouse events and hands     *)
(* the events determine_nclicks returns to dispatch_mouse.                 *)
(***************************************************************************)
MouseButtons == {"LEFT", "RIGHT"}
MouseEventTypes == {MOUSE_DOWN, "MOUSE_UP"}

\* Time between two events: none, exactly the timeout, more than the timeout.
Gaps == {0, double_click_timeout, double_click_timeout + 1}

\* last_mouse_button = MouseButton.NO_BUTTON, last_mouse_time = monotonic(),
\* last_mouse_nclicks = 0
ClicksInit == ClickIdle

\* read_from_input, case _PartialMouseEvent(): the event arrives gap after
\* the previous one.
ReadMouseEvent ==
    /\ Len(mouse_events_out) < MaxMouseEvents
    /\ \E button \in MouseButtons, event_type \in MouseEventTypes, gap \in Gaps :
        LET current_time == now + gap
            before == [button |-> last_mouse_button, time |-> last_mouse_time,
                       nclicks |-> last_mouse_nclicks]
            out == determine_nclicks(
                       before,
                       [button |-> button, event_type |-> event_type],
                       current_time)
        IN  /\ now' = current_time
            /\ last_mouse_button' = out.state.button
            /\ last_mouse_time' = out.state.time
            /\ last_mouse_nclicks' = out.state.nclicks
            /\ mouse_events_out' =
                   Append(mouse_events_out,
                          [event |-> out.event, time |-> current_time,
                           before |-> before, after |-> out.state])
    /\ UNCHANGED <<overlapVars, treeVars, renderVars, handlerVars, dispatchVars,
                   decoderVars, focusVars, treeOpVars, normVars, moreVars>>

ClicksNext == ReadMouseEvent

InitClicks ==
    /\ ClicksInit
    /\ OverlapIdle
    /\ TreeIdle
    /\ RenderIdle
    /\ DispatchIdle
    /\ DecoderIdle
    /\ FocusIdle
    /\ TreeOpIdle
    /\ NormIdle
    /\ MoreIdle
    /\ rect = Rect(0, 0, 0, 0, 0, 0)

SpecClicks == InitClicks /\ [][ClicksNext]_vars

(***************************************************************************)
(* SpecFocus: application code and the dispatcher call the methods of      *)
(* FocusBehavior on the focusable widgets of a tree; leaf widgets are      *)
(* removed and destroyed.                                                  *)
(***************************************************************************)
\* The trees in which every widget has a parent.
FocusTrees == { t \in TreeShapes : \A w \in Widgets \ {"P"} : parent(t, w) # "None" }

\* The widgets that are FocusBehavior instances: all but the root, or all
\* but the root and B.
FocusableSets == { {"A", "B", "G"}, {"A", "G"} }

\* The permutations of a set: the orders its widgets can be constructed in.
Perms(ws) ==
    { f \in [1..Cardinality(ws) -> ws] : \A w \in ws : \E i \in DOMAIN f : f[i] = w }

PtfChoices == { [w \in Widgets |-> TRUE], [w \in Widgets |-> w # "A"] }

\* Where a mouse event is: screen coordinates inside and outside the root.
MousePositions == { <<0, 0>>, <<1, ViewW - 1>>, <<ViewH, 0>> }

KeyNames == {"tab", "a"}

FocusInit ==
    /\ children \in FocusTrees
    /\ pos \in Layouts
    /\ size = Sizes
    /\ is_transparent = [w \in Widgets |-> FALSE]
    /\ is_visible = [w \in Widgets |-> TRUE]
    /\ is_enabled = [w \in Widgets |-> TRUE]
    /\ default_char = [w \in Widgets |-> " "]
    /\ canvas = [w \in Widgets |-> <<>>]
    /\ colors = [w \in Widgets |-> <<>>]
    /\ is_focusable \in FocusableSets
    /\ ptf_on_focus \in PtfChoices
    /\ alive = Widgets
    /\ focus_widgets \in Perms(is_focusable)
    /\ focused = {}
    /\ last_op = NoOp
    /\ run = NoRun
    /\ key_calls = <<>>

\* The widgets a method can be called on.
Callable == alive \cap is_focusable

Before ==
    [focused |-> focused, focus_widgets |-> focus_widgets, alive |-> alive,
     children |-> children]

\* An effect that changes nothing.
NoEffect ==
    [children |-> children, focus_widgets |-> focus_widgets,
     focused |-> focused, on_blur |-> NoCalls, on_focus |-> NoCalls,
     target |-> "None"]

\* The effect of the method named.
EffectOf(method, self) ==
    CASE method = "focus" ->
            focus(children, focus_widgets, focused, alive, is_focusable,
                  ptf_on_focus, self)
      [] method = "blur" -> blur(children, focus_widgets, focused, self)
      [] method = "focus_next" ->
            focus_next(children, focus_widgets, focused, alive, is_focusable,
                       ptf_on_focus)
      [] method = "focus_previous" ->
            focus_previous(children, focus_widgets, focused, alive,
                           is_focusable, ptf_on_focus)
      [] method = "none" -> NoEffect

\* The focus_next calls in a row, MaxRun at most: the head of the deque and
\* whether a widget was focused before the first, and the widget each
\* focused.
RunAfter(method, target) ==
    IF method # "focus_next" THEN NoRun
    ELSE IF run.targets # <<>> /\ Len(run.targets) < MaxRun
    THEN [run EXCEPT !.targets = Append(@, target)]
    ELSE [head |-> Head(focus_widgets), any_focused |-> focused # {},
          targets |-> <<target>>]

\* The state after a call, and the record of it.
Apply(op, self, method, info) ==
    \E eff \in {EffectOf(method, self)} :
        /\ children' = eff.children
        /\ focus_widgets' = eff.focus_widgets
        /\ focused' = eff.focused
        /\ run' = RunAfter(method, eff.target)
        /\ last_op' = [NoOp EXCEPT
                          !.op = op, !.self = self, !.method = method,
                          !.target = eff.target,
                          !.returned = info.returned,
                          !.passed_on = info.passed_on,
                          !.key = info.key, !.shift = info.shift,
                          !.event_type = info.event_type,
                          !.collides = info.collides,
                          !.on_blur = eff.on_blur, !.on_focus = eff.on_focus,
                          !.before = Before]
        /\ key_calls' = <<>>
        /\ UNCHANGED <<alive, is_focusable, ptf_on_focus>>
        /\ UNCHANGED <<rect, child, region, pos, size, is_transparent,
                       is_visible, is_enabled, default_char, canvas, colors>>
        /\ UNCHANGED <<renderVars, handlerVars, dispatchVars, decoderVars,
                       clickVars, treeOpVars, normVars, moreVars>>

\* What a plain method call returns and passes on.
Plain ==
    [returned |-> "None", passed_on |-> FALSE, key |-> "none",
     shift |-> FALSE, event_type |-> "none", collides |-> FALSE]

Focus == \E self \in Callable : Apply("focus", self, "focus", Plain)

Blur == \E self \in Callable : Apply("blur", self, "blur", Plain)

FocusNext == \E self \in Callable : Apply("focus_next", self, "focus_next", Plain)

FocusPrevious ==
    \E self \in Callable : Apply("focus_previous", self, "focus_previous", Plain)

\* FocusBehavior.dispatch_key
DispatchKey ==
    \E self \in Callable, key \in KeyNames, shift \in BOOLEAN :
        IF key # "tab"
        THEN Apply("dispatch_key", self, "none",
                   [Plain EXCEPT
                       !.key = key, !.shift = shift,
                       !.passed_on = self \in focused,
                       !.returned = IF self \in focused THEN "super"
                                    ELSE "False"])
        ELSE Apply("dispatch_key", self, tab_method(shift),
                   [Plain EXCEPT !.key = key, !.shift = shift,
                                 !.returned = "True"])

\* The calls of focus_next and focus_previous among the calls of a dispatch.
FocusCallsOf(made) ==
    SelectSeq(made, LAMBDA c : c.call \in {"focus_next", "focus_previous"})

\* The effect of those calls, made one after the other.
RECURSIVE focus_calls_effect(_, _)
focus_calls_effect(made, eff) ==
    IF made = <<>> THEN eff
    ELSE focus_calls_effect(
             Tail(made),
             IF Head(made).call = "focus_next"
             THEN focus_next(eff.children, eff.focus_widgets, eff.focused,
                             alive, is_focusable, ptf_on_focus)
             ELSE focus_previous(eff.children, eff.focus_widgets, eff.focused,
                                 alive, is_focusable, ptf_on_focus))

\* root.dispatch_key(key_event), as read_from_input calls it: the event goes
\* down the tree from the root P, which is not a FocusBehavior.
RootDispatchKey ==
    \E key \in KeyNames, shift \in BOOLEAN :
        \E out \in {dispatch_key(children, focused, is_focusable, "P", key, shift)} :
            \E eff \in {focus_calls_effect(FocusCallsOf(out.calls), NoEffect)} :
                LET method == IF FocusCallsOf(out.calls) = <<>> THEN "none"
                              ELSE FocusCallsOf(out.calls)[1].call
                IN  /\ children' = eff.children
                    /\ focus_widgets' = eff.focus_widgets
                    /\ focused' = eff.focused
                    /\ run' = RunAfter(method, eff.target)
                    /\ key_calls' = out.calls
                    /\ last_op' = [NoOp EXCEPT
                                      !.op = "root_dispatch_key", !.self = "P",
                                      !.method = method, !.target = eff.target,
                                      !.returned = IF Truthy(out.ret) THEN "True"
                                                   ELSE "False",
                                      !.key = key, !.shift = shift,
                                      !.on_blur = eff.on_blur,
                                      !.on_focus = eff.on_focus,
                                      !.before = Before]
                    /\ UNCHANGED <<alive, is_focusable, ptf_on_focus>>
                    /\ UNCHANGED <<rect, child, region, pos, size, is_transparent,
                                   is_visible, is_enabled, default_char, canvas,
                                   colors>>
                    /\ UNCHANGED <<renderVars, handlerVars, dispatchVars,
                                   decoderVars, clickVars, treeOpVars, normVars,
                                   moreVars>>

\* FocusBehavior.dispatch_mouse
DispatchMouse ==
    \E self \in Callable, event_type \in MouseEventTypes,
       position \in MousePositions :
        LET collides == collides_coords(children, pos, size, self, position)
        IN  Apply("dispatch_mouse", self,
                  mouse_method(event_type, self \in focused, collides),
                  [Plain EXCEPT !.event_type = event_type,
                                !.collides = collides,
                                !.passed_on = TRUE, !.returned = "super"])

\* A leaf widget is removed from its parent and no reference to it is kept:
\* the weak references to it are dead.
Destroy ==
    \E w \in alive \ {"P"} :
        /\ children[w] = <<>>
        /\ parent(children, w) # "None"
        /\ children' = [children EXCEPT ![parent(children, w)] = remove(@, w)]
        /\ alive' = alive \ {w}
        /\ focused' = focused \ {w}
        /\ run' = NoRun
        /\ key_calls' = <<>>
        /\ last_op' = [NoOp EXCEPT !.op = "destroy", !.self = w,
                                   !.before = Before]
        /\ UNCHANGED <<focus_widgets, is_focusable, ptf_on_focus>>
        /\ UNCHANGED <<rect, child, region, pos, size, is_transparent,
                       is_visible, is_enabled, default_char, canvas, colors>>
        /\ UNCHANGED <<renderVars, handlerVars, dispatchVars, decoderVars,
                       clickVars, treeOpVars, normVars, moreVars>>

FocusNextStep ==
    \/ Focus
    \/ Blur
    \/ FocusNext
    \/ FocusPrevious
    \/ DispatchKey
    \/ RootDispatchKey
    \/ DispatchMouse
    \/ Destroy

InitFocus ==
    /\ FocusInit
    /\ child = [top |-> 0, left |-> 0, height |-> 0, width |-> 0]
    /\ region = [called |-> FALSE, idle |-> TRUE]
    /\ rect = Rect(0, 0, 0, 0, 0, 0)
    /\ RenderIdle
    /\ DispatchIdle
    /\ DecoderIdle
    /\ ClickIdle
    /\ TreeOpIdle
    /\ NormIdle
    /\ MoreIdle

SpecFocus == InitFocus /\ [][FocusNextStep]_vars

(***************************************************************************)
(* SpecTree: application code adds widgets to widgets, removes them and    *)
(* pulls them to the front.                                                *)
(***************************************************************************)
\* The back-references a tree built with add_widget has.
ParentsOf(kids) == [w \in Widgets |-> parent(kids, w)]

TreeInit ==
    /\ children \in TreeShapes
    /\ widget_parent = ParentsOf(children)
    /\ tree_op = NoTreeOp
    /\ pos = [w \in Widgets |-> [top |-> 0, left |-> 0]]
    /\ size = [w \in Widgets |-> [height |-> 0, width |-> 0]]
    /\ is_transparent = [w \in Widgets |-> FALSE]
    /\ is_visible = [w \in Widgets |-> TRUE]
    /\ is_enabled = [w \in Widgets |-> TRUE]
    /\ default_char = [w \in Widgets |-> " "]
    /\ canvas = [w \in Widgets |-> <<>>]
    /\ colors = [w \in Widgets |-> <<>>]

\* The state after a call, and the record of it.
TreeCall(op, self, widget, out) ==
    /\ children' = out.children
    /\ widget_parent' = out.parent
    /\ tree_op' = [op |-> op, self |-> self, widget |-> widget,
                   raised |-> out.raised,
                   before |-> [children |-> children, parent |-> widget_parent]]
    /\ UNCHANGED <<rect, child, region, pos, size, is_transparent,
                   is_visible, is_enabled, default_char, canvas, colors>>
    /\ UNCHANGED <<renderVars, handlerVars, dispatchVars, decoderVars,
                   clickVars, focusVars, normVars, moreVars>>

\* A widget without a parent is added to a widget that is not below it.
AddWidget ==
    \E self \in Widgets, widget \in Widgets \ {"P"} :
        /\ widget # self
        /\ widget_parent[widget] = "None"
        /\ self \notin walk(children, widget)
        /\ TreeCall("add_widget", self, widget,
                    add_widget(children, widget_parent, self, widget))

\* remove_widget is called on any widget with any other widget.
RemoveWidget ==
    \E self \in Widgets, widget \in Widgets \ {"P"} :
        /\ widget # self
        /\ TreeCall("remove_widget", self, widget,
                    remove_widget(children, widget_parent, self, widget))

PullToFront ==
    \E self \in Widgets, widget \in Widgets \ {"P"} :
        /\ widget # self
        /\ TreeCall("pull_to_front", self, widget,
                    pull_widget_to_front(children, widget_parent, self, widget))

TreeNext == AddWidget \/ RemoveWidget \/ PullToFront

InitTree ==
    /\ TreeInit
    /\ child = [top |-> 0, left |-> 0, height |-> 0, width |-> 0]
    /\ region = [called |-> FALSE, idle |-> TRUE]
    /\ rect = Rect(0, 0, 0, 0, 0, 0)
    /\ RenderIdle
    /\ DispatchIdle
    /\ DecoderIdle
    /\ ClickIdle
    /\ FocusIdle
    /\ NormIdle
    /\ MoreIdle

SpecTree == InitTree /\ [][TreeNext]_vars

(***************************************************************************)
(* SpecTreeAny: as SpecTree, but add_widget and add_widgets are called     *)
(* with any widget, whether or not it has a parent already.                *)
(***************************************************************************)
\* The number of entries of all child lists together.
Entries(kids) ==
    Len(kids["P"]) + Len(kids["A"]) + Len(kids["B"]) + Len(kids["G"])

\* self.add_widget(widget) for any two widgets.
AddAnyWidget ==
    \E self \in Widgets, widget \in Widgets \ {"P"} :
        /\ widget # self
        /\ Entries(children) < MaxEntries
        /\ TreeCall("add_widget", self, widget,
                    add_widget(children, widget_parent, self, widget))

\* self.add_widgets(first, second) for any three widgets.
AddWidgets ==
    \E self \in Widgets, first \in Widgets \ {"P"}, second \in Widgets \ {"P"} :
        /\ first # self /\ second # self
        /\ Entries(children) + 2 <= MaxEntries
        /\ TreeCall("add_widgets", self, second,
                    add_widgets(children, widget_parent, self, <<first, second>>))

TreeAnyNext == AddAnyWidget \/ AddWidgets \/ RemoveWidget \/ PullToFront

SpecTreeAny == InitTree /\ [][TreeAnyNext]_vars

(***************************************************************************)
(* SpecNormalize: text with full-width and zero-width characters is put    *)
(* into the canvas of widget A and normalize_canvas is called.             *)
(***************************************************************************)
\* What a cell holds: the default character, a half-width character, a
\* full-width character or a zero-width character.
NormChars == {" ", "a", FULL, COMBINING}

NormSize == [height |-> 1, width |-> NormW]

NormInit ==
    /\ children = NoChildren
    /\ pos = [w \in Widgets |-> [top |-> 0, left |-> 0]]
    /\ size = [w \in Widgets |->
                  IF w = "A" THEN NormSize ELSE [height |-> 0, width |-> 0]]
    /\ is_transparent = [w \in Widgets |-> FALSE]
    /\ is_visible = [w \in Widgets |-> TRUE]
    /\ is_enabled = [w \in Widgets |-> TRUE]
    /\ default_char = [w \in Widgets |-> " "]
    /\ \E grid \in [Cells(NormSize.height, NormSize.width) -> NormChars] :
           canvas = [w \in Widgets |-> IF w = "A" THEN grid ELSE <<>>]
    /\ colors = [w \in Widgets |-> <<>>]
    /\ norm_op = NoNormOp

\* A.normalize_canvas()
Normalize ==
    /\ \E out \in { normalize_canvas(canvas["A"], size["A"].height,
                                     size["A"].width, default_char["A"]) } :
        /\ canvas' = [canvas EXCEPT !["A"] = out.canvas]
        /\ norm_op' = [called |-> TRUE, raised |-> out.raised,
                       before |-> canvas["A"]]
    /\ UNCHANGED <<rect, child, region, children, pos, size, is_transparent,
                   is_visible, is_enabled, default_char, colors>>
    /\ UNCHANGED <<renderVars, handlerVars, dispatchVars, decoderVars,
                   clickVars, focusVars, treeOpVars, moreVars>>

NormNext == Normalize

InitNormalize ==
    /\ NormInit
    /\ child = [top |-> 0, left |-> 0, height |-> 0, width |-> 0]
    /\ region = [called |-> FALSE, idle |-> TRUE]
    /\ rect = Rect(0, 0, 0, 0, 0, 0)
    /\ RenderIdle
    /\ DispatchIdle
    /\ DecoderIdle
    /\ ClickIdle
    /\ FocusIdle
    /\ TreeOpIdle
    /\ MoreIdle

SpecNormalize == InitNormalize /\ [][NormNext]_vars

(***************************************************************************)
(* SpecTasks: the event loop runs auto_render, read_from_input and the     *)
(* user's on_start, one statement at a time.                               *)
(***************************************************************************)
TasksInit ==
    /\ children \in TreeShapes
    /\ pos = [w \in Widgets |-> [top |-> 0, left |-> 0]]
    /\ size = [w \in Widgets |-> [height |-> 0, width |-> 0]]
    /\ is_transparent = [w \in Widgets |-> FALSE]
    /\ is_visible = [w \in Widgets |-> TRUE]
    /\ is_enabled = [w \in Widgets |-> TRUE]
    /\ default_char = [w \in Widgets |-> " "]
    /\ canvas = [w \in Widgets |-> <<>>]
    /\ colors = [w \in Widgets |-> <<>>]
    /\ TaskIdle

TaskStep ==
    UNCHANGED <<overlapVars, treeVars, renderVars, handlerVars, dispatchVars,
                decoderVars, clickVars, focusVars, treeOpVars, normVars,
                inputVars, animVars, resizeVars, autoPosVars>>

\* auto_render: root.render() begins, at the start of the task or after the
\* sleep.
RenderStart ==
    /\ render_at = "sleep"
    /\ running = "None"
    /\ renders < MaxRenders
    /\ render_at' = "render"
    /\ render_todo' = render_steps(children, "P")
    /\ frame' = NoFrame
    /\ started' = [completed |-> completed, ticks |-> ticks]
    /\ renders' = renders + 1
    /\ running' = running_after("auto_render", "render")
    /\ UNCHANGED <<shown, text, read_at, read_todo, dispatch_todo, completed,
                   arrived, ticks>>
    /\ TaskStep

\* root.render(): the next widget of the traversal is painted.
RenderPaint ==
    /\ render_at = "render"
    /\ may_run("auto_render")
    /\ render_todo # <<>>
    /\ frame' = [frame EXCEPT ![Head(render_todo)] =
                    [text |-> text[Head(render_todo)], ticks |-> ticks]]
    /\ render_todo' = Tail(render_todo)
    /\ running' = running_after("auto_render", "render")
    /\ UNCHANGED <<render_at, started, shown, renders, text, read_at, read_todo,
                   dispatch_todo, completed, arrived, ticks>>
    /\ TaskStep

\* env_out.render_frame(root), then await asyncio.sleep(render_interval).
RenderFrame ==
    /\ render_at = "render"
    /\ may_run("auto_render")
    /\ render_todo = <<>>
    /\ shown' = [rendered |-> TRUE, frame |-> frame, started |-> started]
    /\ render_at' = "sleep"
    /\ running' = running_after("auto_render", "sleep")
    /\ UNCHANGED <<render_todo, frame, started, renders, text, read_at,
                   read_todo, dispatch_todo, completed, arrived, ticks>>
    /\ TaskStep

\* The input is readable and the loop calls read_from_input: one or two
\* events are yielded and the dispatch of the first one begins.
ReadStart ==
    /\ read_at = "return"
    /\ running = "None"
    /\ \E n \in 1..2 :
          /\ arrived + n <= MaxTaskEvents
          /\ arrived' = arrived + n
          /\ read_todo' = [k \in 1..n |-> arrived + k]
    /\ dispatch_todo' = dispatch_steps(children, "P")
    /\ read_at' = "dispatch"
    /\ running' = running_after("read_from_input", "dispatch")
    /\ UNCHANGED <<render_at, render_todo, frame, started, shown, renders, text,
                   completed, ticks>>
    /\ TaskStep

\* The dispatch calls the next handler, which records the event in its
\* widget and returns None; after the last handler the dispatch returns and
\* the loop of read_from_input takes the next event, or returns.
DispatchStep ==
    /\ read_at = "dispatch"
    /\ may_run("read_from_input")
    /\ text' = [text EXCEPT ![Head(dispatch_todo)] = Head(read_todo)]
    /\ IF Tail(dispatch_todo) # <<>>
       THEN /\ dispatch_todo' = Tail(dispatch_todo)
            /\ UNCHANGED <<read_todo, read_at, completed>>
            /\ running' = running_after("read_from_input", "dispatch")
       ELSE /\ completed' = completed + 1
            /\ read_todo' = Tail(read_todo)
            /\ IF Tail(read_todo) # <<>>
               THEN /\ dispatch_todo' = dispatch_steps(children, "P")
                    /\ read_at' = "dispatch"
                    /\ running' = running_after("read_from_input", "dispatch")
               ELSE /\ dispatch_todo' = <<>>
                    /\ read_at' = "return"
                    /\ running' = running_after("read_from_input", "return")
    /\ UNCHANGED <<render_at, render_todo, frame, started, shown, renders,
                   arrived, ticks>>
    /\ TaskStep

\* on_start: the user's coroutine runs from one await to the next.
OnStartStep ==
    /\ running = "None"
    /\ ticks < MaxTicks
    /\ ticks' = ticks + 1
    /\ UNCHANGED <<running, render_at, render_todo, frame, started, shown,
                   renders, text, read_at, read_todo, dispatch_todo, completed,
                   arrived>>
    /\ TaskStep

TasksNext ==
    \/ RenderStart
    \/ RenderPaint
    \/ RenderFrame
    \/ ReadStart
    \/ DispatchStep
    \/ OnStartStep

InitTasks ==
    /\ TasksInit
    /\ OverlapIdle
    /\ rect = Rect(0, 0, 0, 0, 0, 0)
    /\ RenderIdle
    /\ DispatchIdle
    /\ DecoderIdle
    /\ ClickIdle
    /\ FocusIdle
    /\ TreeOpIdle
    /\ NormIdle
    /\ InputIdle
    /\ AnimIdle
    /\ ResizeIdle
    /\ AutoPosIdle

SpecTasks == InitTasks /\ [][TasksNext]_vars

(***************************************************************************)
(* SpecAnim: a TextAnimation is played, paused, stopped, reversed and       *)
(* removed while the loop runs the tasks that play created.                *)
(***************************************************************************)
\* TextAnimation.__init__: "self._i = len(self.frames) - 1 if self.reverse
\* else 0" and "self._animation_task = None"
AnimInit ==
    /\ frames \in 0..MaxFrames
    /\ loop \in BOOLEAN
    /\ reverse \in BOOLEAN
    /\ _i = first_frame(frames, reverse)
    /\ _animation_task = 0
    /\ task_at = [t \in Tasks |-> "unborn"]
    /\ removed = FALSE
    /\ advanced = FALSE
    /\ last_wake = NoWake

AnimOthers ==
    UNCHANGED <<overlapVars, treeVars, renderVars, handlerVars, dispatchVars,
                decoderVars, clickVars, focusVars, treeOpVars, normVars,
                inputVars, taskVars, resizeVars, autoPosVars, frames, loop>>

AnimStep == AnimOthers /\ UNCHANGED reverse

\* "animation.reverse = not animation.reverse": the attribute is assigned
\* while the animation is in any state.
SetReverse ==
    /\ reverse' = ~reverse
    /\ last_wake' = NoWake
    /\ UNCHANGED <<_i, _animation_task, task_at, removed, advanced>>
    /\ AnimOthers

\* play(): the current task is cancelled and a new one is created.
Play ==
    /\ \E t \in Tasks :
          /\ task_at[t] = "unborn"
          /\ \A u \in Tasks : u < t => task_at[u] # "unborn"
          /\ task_at' = [pause(_animation_task, task_at) EXCEPT ![t] = "created"]
          /\ _animation_task' = t
    /\ _i' = play_from(_i, frames, reverse)
    /\ removed' = FALSE
    /\ UNCHANGED advanced
    /\ last_wake' = NoWake
    /\ AnimStep

\* pause()
Pause ==
    /\ task_at' = pause(_animation_task, task_at)
    /\ UNCHANGED <<_i, _animation_task, removed, advanced>>
    /\ last_wake' = NoWake
    /\ AnimStep

\* stop()
Stop ==
    /\ task_at' = pause(_animation_task, task_at)
    /\ _i' = first_frame(frames, reverse)
    /\ UNCHANGED <<_animation_task, removed, advanced>>
    /\ last_wake' = NoWake
    /\ AnimStep

\* on_remove(), called when the widget is removed from its parent.
OnRemove ==
    /\ task_at' = on_remove(_animation_task, task_at)
    /\ removed' = TRUE
    /\ UNCHANGED <<_i, _animation_task, advanced>>
    /\ last_wake' = NoWake
    /\ AnimStep

\* The loop runs a new task for the first time: "while self.frames:" and
\* the first "await asyncio.sleep(...)".
TaskStart(t) ==
    /\ task_at[t] = "created"
    /\ task_at' = [task_at EXCEPT ![t] = IF frames = 0 THEN "done" ELSE "sleeping"]
    /\ UNCHANGED <<_i, _animation_task, removed, advanced>>
    /\ last_wake' = NoWake
    /\ AnimStep

\* The sleep of a task is over: the index moves on and the task sleeps
\* again, or returns.
TaskWake(t) ==
    /\ task_at[t] = "sleeping"
    /\ LET next == advance(_i, frames, reverse, loop)
       IN  /\ _i' = next.i
           /\ task_at' = [task_at EXCEPT ![t] =
                            IF next.returns THEN "done" ELSE "sleeping"]
    /\ advanced' = (advanced \/ removed)
    /\ last_wake' = [task |-> t, from |-> _i, reverse |-> reverse]
    /\ UNCHANGED <<_animation_task, removed>>
    /\ AnimStep

\* The loop runs a task that was cancelled: CancelledError is raised at its
\* await (or before its first statement) and ends it.
TaskCancelled(t) ==
    /\ task_at[t] = "cancelling"
    /\ task_at' = [task_at EXCEPT ![t] = "cancelled"]
    /\ UNCHANGED <<_i, _animation_task, removed, advanced>>
    /\ last_wake' = NoWake
    /\ AnimStep

AnimNext ==
    \/ Play
    \/ Pause
    \/ Stop
    \/ OnRemove
    \/ SetReverse
    \/ \E t \in Tasks : TaskStart(t)
    \/ \E t \in Tasks : TaskWake(t)
    \/ \E t \in Tasks : TaskCancelled(t)

InitAnim ==
    /\ AnimInit
    /\ OverlapIdle
    /\ rect = Rect(0, 0, 0, 0, 0, 0)
    /\ TreeIdle
    /\ RenderIdle
    /\ DispatchIdle
    /\ DecoderIdle
    /\ ClickIdle
    /\ FocusIdle
    /\ TreeOpIdle
    /\ NormIdle
    /\ InputIdle
    /\ TaskIdle
    /\ ResizeIdle
    /\ AutoPosIdle

SpecAnim == InitAnim /\ [][AnimNext]_vars

(***************************************************************************)
(* SpecResize: a widget that holds text is resized, and resized again.     *)
(***************************************************************************)
Sides == 0..MaxSide
ResizeSizes == { [height |-> h, width |-> w] : h \in Sides, w \in Sides }

\* The widget A with text and colours written all over its canvas, without
\* children or with the children B and G.
ResizeInit ==
    /\ children \in { NoChildren, [NoChildren EXCEPT !["A"] = <<"B", "G">>] }
    /\ pos = [w \in Widgets |-> [top |-> 0, left |-> 0]]
    /\ \E sz \in ResizeSizes, phase \in 0..1 :
          /\ size = [w \in Widgets |->
                        IF w = "A" THEN sz ELSE [height |-> 0, width |-> 0]]
          /\ canvas = [w \in Widgets |->
                          IF w = "A"
                          THEN [p \in Cells(sz.height, sz.width) |->
                                   Glyph("A", p, phase)]
                          ELSE <<>>]
          /\ colors = [w \in Widgets |->
                          IF w = "A"
                          THEN [p \in Cells(sz.height, sz.width) |->
                                   <<"A", (p[1] + p[2]) % 2>>]
                          ELSE <<>>]
    /\ is_transparent = [w \in Widgets |-> FALSE]
    /\ is_visible = [w \in Widgets |-> TRUE]
    /\ is_enabled = [w \in Widgets |-> TRUE]
    /\ default_char \in { [w \in Widgets |-> IF w = "A" THEN c ELSE " "] :
                             c \in {" ", "."} }
    /\ default_color_pair = [w \in Widgets |-> WHITE_ON_BLACK]
    /\ resizes = <<>>
    /\ geometry_calls = <<>>

\* A.resize(new_size)
Resize ==
    /\ Len(resizes) < MaxResizes
    /\ \E new_size \in ResizeSizes :
          \E out \in { resize(canvas["A"], colors["A"], size["A"], new_size,
                              default_char["A"], default_color_pair["A"]) } :
              /\ size' = [size EXCEPT !["A"] = new_size]
              /\ canvas' = [canvas EXCEPT !["A"] = out.canvas]
              /\ colors' = [colors EXCEPT !["A"] = out.colors]
              /\ geometry_calls' = notify_children(children, "A", new_size)
    /\ resizes' = Append(resizes, [size |-> size["A"], canvas |-> canvas["A"],
                                    colors |-> colors["A"]])
    /\ UNCHANGED <<rect, child, region, children, pos, is_transparent,
                   is_visible, is_enabled, default_char, default_color_pair>>
    /\ UNCHANGED <<renderVars, handlerVars, dispatchVars, decoderVars,
                   clickVars, focusVars, treeOpVars, normVars, inputVars,
                   taskVars, animVars, autoPosVars>>

ResizeNext == Resize

InitResize ==
    /\ ResizeInit
    /\ child = [top |-> 0, left |-> 0, height |-> 0, width |-> 0]
    /\ region = [called |-> FALSE, idle |-> TRUE]
    /\ rect = Rect(0, 0, 0, 0, 0, 0)
    /\ RenderIdle
    /\ DispatchIdle
    /\ DecoderIdle
    /\ ClickIdle
    /\ FocusIdle
    /\ TreeOpIdle
    /\ NormIdle
    /\ InputIdle
    /\ TaskIdle
    /\ AnimIdle
    /\ AutoPosIdle

SpecResize == InitResize /\ [][ResizeNext]_vars

(***************************************************************************)
(* SpecAutoPos: the widget A, an AutoPositionBehavior, lies somewhere in   *)
(* its parent P when update_geometry is called on it.                      *)
(***************************************************************************)
Hints == { [num |-> 0, den |-> 1], [num |-> 1, den |-> 4], Half,
           [num |-> 1, den |-> 1] }
Offsets == 0..MaxOffset

AutoPosInit ==
    /\ children = [NoChildren EXCEPT !["P"] = <<"A">>]
    /\ \E t \in Offsets, l \in Offsets :
          pos = [w \in Widgets |->
                    IF w = "A" THEN [top |-> t, left |-> l]
                    ELSE [top |-> 0, left |-> 0]]
    /\ \E own \in {[height |-> 1, width |-> 1], [height |-> 2, width |-> 3]},
          dim \in {[height |-> 4, width |-> 5], [height |-> 3, width |-> 6]} :
          size = [w \in Widgets |->
                     IF w = "A" THEN own
                     ELSE IF w = "P" THEN dim
                     ELSE [height |-> 0, width |-> 0]]
    /\ is_transparent = [w \in Widgets |-> FALSE]
    /\ is_visible = [w \in Widgets |-> TRUE]
    /\ is_enabled = [w \in Widgets |-> TRUE]
    /\ default_char = [w \in Widgets |-> " "]
    /\ canvas = [w \in Widgets |-> <<>>]
    /\ colors = [w \in Widgets |-> <<>>]
    /\ anchor \in Anchors
    /\ top_hint \in Hints
    /\ left_hint \in Hints
    /\ geometry_updates = 0

\* A.update_geometry(), as the parent's resize calls it.
UpdateGeometry ==
    /\ geometry_updates < MaxUpdates
    /\ pos' = [pos EXCEPT !["A"] =
                  update_geometry(anchor, Box("A"), size[parent(children, "A")],
                                  top_hint, left_hint)]
    /\ geometry_updates' = geometry_updates + 1
    /\ UNCHANGED <<rect, child, region, children, size, is_transparent,
                   is_visible, is_enabled, default_char, canvas, colors,
                   anchor, top_hint, left_hint>>
    /\ UNCHANGED <<renderVars, handlerVars, dispatchVars, decoderVars,
                   clickVars, focusVars, treeOpVars, normVars, inputVars,
                   taskVars, animVars, resizeVars>>

AutoPosNext == UpdateGeometry

InitAutoPos ==
    /\ AutoPosInit
    /\ child = [top |-> 0, left |-> 0, height |-> 0, width |-> 0]
    /\ region = [called |-> FALSE, idle |-> TRUE]
    /\ rect = Rect(0, 0, 0, 0, 0, 0)
    /\ RenderIdle
    /\ DispatchIdle
    /\ DecoderIdle
    /\ ClickIdle
    /\ FocusIdle
    /\ TreeOpIdle
    /\ NormIdle
    /\ InputIdle
    /\ TaskIdle
    /\ AnimIdle
    /\ ResizeIdle

SpecAutoPos == InitAutoPos /\ [][AutoPosNext]_vars

(***************************************************************************)
(* SpecOverlap: overlapping_region on every destination rectangle and      *)
(* child box of a boundary-adjacent grid.                                  *)
(***************************************************************************)
\* Destination rectangles: the root's (origin 0) and a source rectangle
\* handed down by a parent (origin 1), of every size up to MaxDim.
DestRects ==
    { Rect(t, l, t + h, l + w, h, w) :
        t \in 0..1, l \in 0..1, h \in 0..MaxDim, w \in 0..MaxDim }

\* Child boxes: positions from well before the rectangle to well after it,
\* sizes from zero-area to larger than the rectangle.
ChildBoxes ==
    [top : -(MaxDim + 2)..(MaxDim + 2), left : -(MaxDim + 2)..(MaxDim + 2),
     height : 0..(MaxDim + 1), width : 0..(MaxDim + 1)]

OverlapInit ==
    /\ rect \in DestRects
    /\ child \in ChildBoxes
    /\ region = [called |-> FALSE]

CallOverlap ==
    /\ region = [called |-> FALSE]
    /\ region' = [called |-> TRUE, ret |-> overlapping_region(rect, child)]
    /\ UNCHANGED <<rect, child>>

OverlapNext ==
    CallOverlap
    /\ UNCHANGED <<treeVars, renderVars, handlerVars, dispatchVars, decoderVars,
                   laterVars>>

InitOverlap ==
    OverlapInit /\ TreeIdle /\ RenderIdle /\ DispatchIdle /\ DecoderIdle
    /\ LaterIdle

SpecOverlap == InitOverlap /\ [][OverlapNext]_vars

\* The call has returned.
OverlapReturned == region.called

\* The two boxes, in the rectangle's frame.
ct_ == child.top - rect.top
cb_ == bottom(child) - rect.top
cl_ == child.left - rect.left
cr_ == right(child) - rect.left

\* The boxes have at least one cell in common.
HaveCommonCell ==
    /\ Max(ct_, 0) < Min(cb_, rect.height)
    /\ Max(cl_, 0) < Min(cr_, rect.width)

\* The region returned is the intersection of the two boxes.
RegionIsIntersection ==
    /\ region.ret.dest.top = Max(ct_, 0)
    /\ region.ret.dest.bottom = Min(cb_, rect.height)
    /\ region.ret.dest.left = Max(cl_, 0)
    /\ region.ret.dest.right = Min(cr_, rect.width)
    /\ region.ret.src.top = Max(ct_, 0) - ct_
    /\ region.ret.src.bottom = Min(cb_, rect.height) - ct_
    /\ region.ret.src.left = Max(cl_, 0) - cl_
    /\ region.ret.src.right = Min(cr_, rect.width) - cl_

\* C1: overlapping_region returns "no overlap" exactly when the destination
\* rectangle and the child box have no cell in common, and otherwise returns
\* the destination slice and source rectangle of their intersection.
C1_OverlapExact ==
    OverlapReturned =>
        /\ region.ret.hit <=> HaveCommonCell
        /\ region.ret.hit => RegionIsIntersection

\* C2: whenever overlapping_region returns a region, the destination slice
\* and the source rectangle have the same height and the same width.
C2_EqualShape ==
    (OverlapReturned /\ region.ret.hit) =>
        /\ region.ret.dest.bottom - region.ret.dest.top = region.ret.src.bottom - region.ret.src.top
        /\ region.ret.dest.right - region.ret.dest.left = region.ret.src.right - region.ret.src.left
        /\ region.ret.src.height = region.ret.src.bottom - region.ret.src.top
        /\ region.ret.src.width = region.ret.src.right - region.ret.src.left

\* A region was returned for a child that starts inside the rectangle and
\* ends beyond its bottom and right edges, with a non-empty intersection.
C2_Witness ==
    /\ OverlapReturned
    /\ region.ret.hit
    /\ ct_ > 0 /\ cb_ > rect.height
    /\ cl_ > 0 /\ cr_ > rect.width
    /\ HaveCommonCell

(***************************************************************************)
(* Render: geometry stated independently of overlapping_region             *)
(***************************************************************************)
\* The parent of a widget in the tree ("none" for P and detached widgets).
ParentOf(w) ==
    IF \E q \in Widgets : \E i \in 1..Len(children[q]) : children[q][i] = w
    THEN CHOOSE q \in Widgets : \E i \in 1..Len(children[q]) : children[q][i] = w
    ELSE "none"

\* The widget and its ancestors below P, nearest first.
RECURSIVE PathToP(_)
PathToP(w) ==
    IF w = "P" \/ ParentOf(w) = "none" THEN <<>> ELSE <<w>> \o PathToP(ParentOf(w))

\* The widget hangs below P.
InTree(w) ==
    w = "P" \/ (PathToP(w) # <<>> /\ ParentOf(PathToP(w)[Len(PathToP(w))]) = "P")

\* The widget and every ancestor of it below P is visible and enabled.
ShownPath(w) ==
    \A i \in 1..Len(PathToP(w)) :
        is_visible[PathToP(w)[i]] /\ is_enabled[PathToP(w)[i]]

\* The position of the widget's top-left cell in the destination view.
RECURSIVE ViewTop(_)
ViewTop(w) == IF w = "P" THEN -rect.top ELSE ViewTop(ParentOf(w)) + pos[w].top
RECURSIVE ViewLeft(_)
ViewLeft(w) == IF w = "P" THEN -rect.left ELSE ViewLeft(ParentOf(w)) + pos[w].left

\* Cell p of the destination view lies in the widget's box and in the box of
\* each of its ancestors.
RECURSIVE Covers(_, _)
Covers(w, p) ==
    /\ ViewTop(w) <= p[1] /\ p[1] < ViewTop(w) + size[w].height
    /\ ViewLeft(w) <= p[2] /\ p[2] < ViewLeft(w) + size[w].width
    /\ w = "P" \/ Covers(ParentOf(w), p)

\* The cell of the widget's canvas that lies at cell p of the view.
CanvasCellAt(w, p) == <<p[1] - ViewTop(w), p[2] - ViewLeft(w)>>

\* The widget is the last child of its parent, and so is every ancestor:
\* nothing is rendered after it.
RenderedLast(w) ==
    \A i \in 1..Len(PathToP(w)) :
        LET x == PathToP(w)[i]
            sibs == children[ParentOf(x)]
        IN  sibs[Len(sibs)] = x

\* A render has run.
Rendered == painted # <<>>

\* The paints of transparent / opaque widgets in the last render.
PaintsOf(transparent) ==
    { i \in 1..Len(painted) : is_transparent[painted[i].widget] = transparent }

\* Paint i left cell p of the destination as it was.
LeftUnchanged(i, p) ==
    /\ painted[i].canvas_after[p] = painted[i].canvas_before[p]
    /\ painted[i].colors_after[p] = painted[i].colors_before[p]

\* Paint i wrote the widget's source cell to cell p of the destination.
Overwritten(i, p) ==
    LET e == painted[i]
        s == SrcCell(p, e.win, e.rc)
    IN  /\ e.canvas_after[p] = canvas[e.widget][s]
        /\ e.colors_after[p] = colors[e.widget][s]

\* The view the render leaves is the one its last paint left.
ViewIsLastPaint ==
    Rendered =>
        /\ canvas_view = painted[Len(painted)].canvas_after
        /\ colors_view = painted[Len(painted)].colors_after

\* C3 as stated: a transparent widget leaves a destination cell unchanged
\* where its source cell equals its default character and overwrites it
\* elsewhere.
C3_BlankIsDefaultChar ==
    \A i \in PaintsOf(TRUE) :
        \A p \in DOMAIN painted[i].canvas_after :
            InWin(p, painted[i].win) =>
                LET w == painted[i].widget
                    s == SrcCell(p, painted[i].win, painted[i].rc)
                IN  IF canvas[w][s] = default_char[w]
                    THEN LeftUnchanged(i, p)
                    ELSE Overwritten(i, p)

\* C3 as amended: a transparent widget leaves a destination cell unchanged,
\* in character and colour, where its source cell is a space, and overwrites
\* every other cell of the rectangle with the source character and colour.
C3_SpaceIsSeeThrough ==
    /\ ViewIsLastPaint
    /\ \A i \in PaintsOf(TRUE) :
        \A p \in DOMAIN painted[i].canvas_after :
            IF InWin(p, painted[i].win)
            THEN LET w == painted[i].widget
                     s == SrcCell(p, painted[i].win, painted[i].rc)
                 IN  IF canvas[w][s] = " "
                     THEN LeftUnchanged(i, p)
                     ELSE Overwritten(i, p)
            ELSE LeftUnchanged(i, p)

\* A transparent widget whose default character is not a space was painted
\* over non-blank cells: one under a space of its canvas, one under its
\* default character.
C3_Witness ==
    \E i \in PaintsOf(TRUE) :
        LET e == painted[i]
            w == e.widget
        IN  /\ default_char[w] # " "
            /\ \E p, q \in DOMAIN e.canvas_after :
                /\ InWin(p, e.win) /\ InWin(q, e.win)
                /\ canvas[w][SrcCell(p, e.win, e.rc)] = " "
                /\ canvas[w][SrcCell(q, e.win, e.rc)] = default_char[w]
                /\ e.canvas_before[p] # " "
                /\ e.canvas_before[q] # " "

\* C4: an opaque widget overwrites every cell of the destination view with
\* its own character and colour, whatever the destination held and whatever
\* the source cell is.
C4_OpaqueOverwrites ==
    /\ ViewIsLastPaint
    /\ \A i \in PaintsOf(FALSE) :
        \A p \in DOMAIN painted[i].canvas_after :
            IF InWin(p, painted[i].win) THEN Overwritten(i, p) ELSE LeftUnchanged(i, p)

\* An opaque widget was painted over a non-blank cell with a space of its
\* canvas, and over a blank cell with text.
C4_Witness ==
    \E i \in PaintsOf(FALSE) :
        LET e == painted[i]
            w == e.widget
        IN  \E p, q \in DOMAIN e.canvas_after :
                /\ InWin(p, e.win) /\ InWin(q, e.win)
                /\ canvas[w][SrcCell(p, e.win, e.rc)] = " "
                /\ e.canvas_before[p] \notin {" ", canvas[w][SrcCell(p, e.win, e.rc)]}
                /\ canvas[w][SrcCell(q, e.win, e.rc)] = Ink(w)
                /\ e.canvas_before[q] # Ink(w)

\* The pairs of siblings a then b (b later in the child list) of a rendered
\* parent, both visible and enabled, with nothing rendered after b.
SiblingPairs ==
    { ab \in UNION { { <<children[q][i], children[q][j]>> :
                         i \in 1..Len(children[q]), j \in 1..Len(children[q]) }
                     : q \in { x \in Widgets : InTree(x) /\ ShownPath(x) } } :
        /\ \E q \in Widgets : \E i, j \in 1..Len(children[q]) :
              i < j /\ children[q][i] = ab[1] /\ children[q][j] = ab[2]
        /\ is_visible[ab[1]] /\ is_enabled[ab[1]]
        /\ is_visible[ab[2]] /\ is_enabled[ab[2]]
        /\ children[ab[2]] = <<>> /\ RenderedLast(ab[2]) }

\* The view shows b's content at cell p.
ShowsContentOf(b, p) ==
    /\ canvas_view[p] = canvas[b][CanvasCellAt(b, p)]
    /\ colors_view[p] = colors[b][CanvasCellAt(b, p)]

ShownChildren ==
    [w \in Widgets |->
        SelectSeq(children[w], LAMBDA c : is_visible[c] /\ is_enabled[c])]

\* C6: a child that is not visible or not enabled is never painted, nor is
\* any widget of its subtree; the view is the one rendered without them.
C6_HiddenNeverPainted ==
    Rendered =>
        /\ \A i \in 1..Len(painted) : ShownPath(painted[i].widget)
        /\ LET without ==
                 render(ShownChildren, "P",
                        [canvas |-> painted[1].canvas_before,
                         colors |-> painted[1].colors_before,
                         err |-> FALSE, log |-> <<>>],
                        [top |-> 0, left |-> 0,
                         height |-> rect.height, width |-> rect.width],
                        rect)
           IN  /\ canvas_view = without.canvas
               /\ colors_view = without.colors

\* A render has run on a tree where a child is hidden or disabled, has a
\* visible, enabled child of its own, and both cover a cell of the view.
C6_Witness ==
    /\ Rendered
    /\ \E c, g \in Widgets : \E p \in DOMAIN canvas_view :
        /\ InTree(c) /\ c # "P" /\ ShownPath(ParentOf(c))
        /\ ~is_visible[c] \/ ~is_enabled[c]
        /\ ParentOf(g) = c
        /\ is_visible[g] /\ is_enabled[g]
        /\ Covers(g, p)

(***************************************************************************)
(* Dispatch                                                                *)
(***************************************************************************)
\* The widget and its descendants.
RECURSIVE Subtree(_)
Subtree(w) ==
    {w} \cup UNION { Subtree(children[w][i]) : i \in 1..Len(children[w]) }

\* The positions in the call log of the handlers of a set of widgets.
CallsOf(S) == { i \in 1..Len(calls) : calls[i] \in S }

\* The dispatch of a mouse event on P has returned.
ClickDispatched == event = "click" /\ handled # "pending"

\* No handler of the set of widgets that was called returned a true value.
NotHandledBy(S) == \A i \in CallsOf(S) : ~Truthy(on_click[calls[i]])

\* C7: with children A then B of the container, a mouse event is offered to
\* B's subtree first, to A's subtree only if B's subtree did not handle it,
\* and to the container's own handler last and only if no child subtree
\* handled it; no handler is called after one has returned true.
C7_TopmostFirst ==
    ClickDispatched =>
        LET kids == children["P"]
        IN  /\ \A i, j \in 1..Len(kids) :
                i < j =>
                    LET A == Subtree(kids[i])
                        B == Subtree(kids[j])
                    IN  /\ \A x \in CallsOf(B) : \A y \in CallsOf(A) : x < y
                        /\ CallsOf(A) # {} => NotHandledBy(B)
            /\ (kids # <<>> /\ is_enabled[kids[Len(kids)]]) =>
                   calls[1] \in Subtree(kids[Len(kids)])
            /\ CallsOf({"P"}) # {} <=> NotHandledBy(Widgets \ {"P"})
            /\ \A x \in CallsOf({"P"}) : x = Len(calls)
            /\ \A x \in 1..Len(calls) :
                   Truthy(on_click[calls[x]]) => x = Len(calls)
            /\ Truthy(handled) <=>
                   \E x \in 1..Len(calls) : Truthy(on_click[calls[x]])

\* A mouse event was dispatched to a container with enabled children A then
\* B: B's subtree (B and its child) declined it and A handled it, so the
\* container's own handler was not called.
C7_Witness ==
    /\ ClickDispatched
    /\ children["P"] = <<"A", "B">>
    /\ children["B"] = <<"G">>
    /\ calls = <<"G", "B", "A">>
    /\ on_click["A"] = "True"

(***************************************************************************)
(* The key decoder.                                                        *)
(***************************************************************************)
\* The sequences the table maps to a key press.
KeySeqs == { s \in DOMAIN ANSI_ESCAPES : ANSI_ESCAPES[s].type = "key" }

\* The chunks of a sequence sent one character per read.
OneByOne(s, n) == [k \in 1..n |-> <<s[k]>>]

\* C8: when read_keys reads, in a single chunk, exactly the sequence of one
\* key of the escape-sequence table, it yields exactly one event, the key
\* event of that key, after one match that consumed the whole sequence, and
\* nothing is left undecoded (no exception, no event held back).
C8_KnownKeySingleChunk ==
    \A s \in KeySeqs :
        reads = <<s>> =>
            /\ yielded = <<ANSI_ESCAPES[s]>>
            /\ matches = 1
            /\ ~read_raised
            /\ _EVENTS = <<>>

\* The up-arrow sequence was read in one chunk and the Up key was yielded.
C8_Witness ==
    /\ reads = <<UP>>
    /\ yielded = <<KeyPressEvent(<<"Key.Up">>, NO_MODS)>>
    /\ matches = 1

\* C9: when the characters of a known multi-character key sequence are read
\* one per read_keys call, no event is yielded while only a proper prefix has
\* been read, and once the last character has been read exactly the one key
\* event of the sequence has been yielded, as for a single chunk.
C9_SlowInputSameEvent ==
    \A s \in KeySeqs :
        Len(s) > 1 =>
            \A n \in 1..Len(s) :
                reads = OneByOne(s, n) =>
                    yielded = IF n = Len(s) THEN <<ANSI_ESCAPES[s]>>
                              ELSE <<>>

\* C10: when the paste start marker and "hello" are read in one chunk and
\* " world" and the paste end marker in the next, no event is yielded after
\* the first chunk alone, and after the second exactly one Paste event with
\* the content "hello world" has been yielded.
C10_PasteSpanningChunks ==
    /\ reads = <<PASTE_START \o HELLO>> => yielded = <<>>
    /\ reads = <<PASTE_START \o HELLO, WORLD \o PASTE_END>> =>
           yielded = <<PasteEvent(HELLO \o WORLD)>>

(***************************************************************************)
(* The click classifier.                                                   *)
(***************************************************************************)
\* The mouse-down events handed to dispatch_mouse so far.
Downs ==
    { i \in 1..Len(mouse_events_out) :
          mouse_events_out[i].event.event_type = MOUSE_DOWN }

HasPrevDown(j) == \E i \in Downs : i < j

\* The mouse-down before the j-th event.
PrevDown(j) == CHOOSE i \in Downs : i < j /\ \A k \in Downs : k < j => k <= i

ButtonOf(i) == mouse_events_out[i].event.button
TimeOf(i) == mouse_events_out[i].time
CountOf(i) == mouse_events_out[i].event.nclicks

\* The j-th event is a mouse-down on the button of the mouse-down before it
\* and within the double-click window of it.
ContinuesRun(j) ==
    /\ HasPrevDown(j)
    /\ ButtonOf(j) = ButtonOf(PrevDown(j))
    /\ TimeOf(j) - TimeOf(PrevDown(j)) <= double_click_timeout

\* The place of a mouse-down in its run of consecutive mouse-downs on the
\* same button, each within the window of the one before.
RECURSIVE RunPos(_)
RunPos(j) == IF ContinuesRun(j) THEN RunPos(PrevDown(j)) + 1 ELSE 1

\* C11: the k-th mouse-down of a run of consecutive mouse-downs on the same
\* button, each within the double-click window of the mouse-down before it,
\* carries the click count ((k - 1) mod 3) + 1, that is 1, 2, 3, 1, 2, 3, ...,
\* never more than 3, whatever other events lie between the mouse-downs.
C11_CountCycles ==
    \A j \in Downs :
        /\ CountOf(j) \in 1..3
        /\ CountOf(j) = ((RunPos(j) - 1) % 3) + 1

\* Four mouse-downs on the left button, each within the window of the one
\* before (the second exactly at its end), carried the counts 1, 2, 3, 1.
C11_Witness ==
    /\ Len(mouse_events_out) = 4
    /\ Downs = 1..4
    /\ \A j \in Downs : ButtonOf(j) = "LEFT"
    /\ \A j \in 2..4 : ContinuesRun(j)
    /\ TimeOf(2) - TimeOf(1) = double_click_timeout
    /\ <<CountOf(1), CountOf(2), CountOf(3), CountOf(4)>> = <<1, 2, 3, 1>>

\* C12: a mouse-down whose button differs from that of the mouse-down before
\* it, or that comes more than the double-click timeout after it, carries
\* the click count 1, whatever the count of the mouse-down before it.
C12_ResetToOne ==
    \A j \in Downs :
        (/\ HasPrevDown(j)
         /\ \/ ButtonOf(j) # ButtonOf(PrevDown(j))
            \/ TimeOf(j) - TimeOf(PrevDown(j)) > double_click_timeout)
        => CountOf(j) = 1

\* After a count of 2 a mouse-down on the other button came at the same
\* instant and carried 1, and the next mouse-down on that button came too
\* late and carried 1 as well.
C12_Witness ==
    /\ Len(mouse_events_out) = 4
    /\ Downs = 1..4
    /\ CountOf(2) = 2
    /\ ButtonOf(3) # ButtonOf(2)
    /\ TimeOf(3) = TimeOf(2)
    /\ CountOf(3) = 1
    /\ ButtonOf(4) = ButtonOf(3)
    /\ TimeOf(4) - TimeOf(3) > double_click_timeout
    /\ CountOf(4) = 1

\* The classifier state a mouse-down meets if the events that are not
\* mouse-downs are left out: the state the mouse-down before it left, or the
\* initial state.
StateLeftByDowns(j) ==
    IF HasPrevDown(j) THEN mouse_events_out[PrevDown(j)].after
    ELSE [button |-> NO_BUTTON, time |-> 0, nclicks |-> 0]

\* C13: every mouse event that is not a mouse-down carries the click count 0
\* and leaves last_mouse_button, last_mouse_time and last_mouse_nclicks as
\* they were, so every mouse-down meets the state left by the mouse-down
\* before it (and gets the count it would get without the events between).
C13_OtherEventsCountZero ==
    \A i \in 1..Len(mouse_events_out) :
        /\ i \notin Downs =>
               /\ CountOf(i) = 0
               /\ mouse_events_out[i].after = mouse_events_out[i].before
        /\ i \in Downs =>
               /\ mouse_events_out[i].before = StateLeftByDowns(i)
               /\ CountOf(i) =
                      determine_nclicks(StateLeftByDowns(i),
                                        [button |-> ButtonOf(i),
                                         event_type |-> MOUSE_DOWN],
                                        TimeOf(i)).event.nclicks

\* A mouse-up came later than a mouse-down, carried 0, and the next
\* mouse-down, within the window of the first, carried 2.
C13_Witness ==
    /\ Len(mouse_events_out) = 3
    /\ Downs = {1, 3}
    /\ TimeOf(2) > TimeOf(1)
    /\ CountOf(2) = 0
    /\ ContinuesRun(3)
    /\ CountOf(3) = 2

(***************************************************************************)
(* Focus.                                                                  *)
(***************************************************************************)
\* The widgets below a in the tree.
RECURSIVE Descendants(_, _)
Descendants(kids, a) ==
    LET direct == { kids[a][i] : i \in 1..Len(kids[a]) }
    IN  direct \cup UNION { Descendants(kids, c) : c \in direct }

\* w and its focusable ancestors.
FocusSet(kids, w) ==
    {w} \cup { a \in is_focusable : w \in Descendants(kids, a) }

\* C14: after focus(w) the focus set is exactly w and the focusable ancestors
\* of w; on_blur was called exactly once on each widget that was focused and
\* is not in that set, on_focus exactly once on each widget of that set that
\* was not focused, and no hook on any other widget.
C14_FocusSetAndHooks ==
    last_op.target # "None" =>
        LET S == FocusSet(last_op.before.children, last_op.target)
            was == last_op.before.focused
        IN  /\ focused = S
            /\ \A x \in Widgets :
                /\ last_op.on_blur[x] = IF x \in was \ S THEN 1 ELSE 0
                /\ last_op.on_focus[x] = IF x \in S \ was THEN 1 ELSE 0

\* focus(G) was called while A and its child B were focused, G being a child
\* of A too: B was blurred, G got the focus hook, and A, in both sets, none.
C14_Witness ==
    /\ last_op.op = "focus"
    /\ last_op.target = "G"
    /\ last_op.before.focused = {"A", "B"}
    /\ focused = {"A", "G"}
    /\ last_op.on_blur["B"] = 1
    /\ last_op.on_focus["G"] = 1
    /\ last_op.on_focus["A"] = 0 /\ last_op.on_blur["A"] = 0

\* What a direct call of focus_next or focus_previous does in the state the
\* last operation met.
DirectCall(method) ==
    LET b == last_op.before
    IN  IF method = "focus_next"
        THEN focus_next(b.children, b.focus_widgets, b.focused, b.alive,
                        is_focusable, ptf_on_focus)
        ELSE focus_previous(b.children, b.focus_widgets, b.focused, b.alive,
                            is_focusable, ptf_on_focus)

TabDispatched == last_op.op = "dispatch_key" /\ last_op.key = "tab"

\* C15: a tab key without shift dispatched to a focusable widget does what
\* focus_next does, a tab with shift what focus_previous does, and in both
\* cases dispatch_key returns True.
C15_TabHandled ==
    TabDispatched =>
        LET direct == DirectCall(IF last_op.shift THEN "focus_previous"
                                 ELSE "focus_next")
        IN  /\ focused = direct.focused
            /\ focus_widgets = direct.focus_widgets
            /\ children = direct.children
            /\ last_op.on_focus = direct.on_focus
            /\ last_op.on_blur = direct.on_blur
            /\ last_op.returned = "True"

\* A tab without shift was dispatched while a widget was focused, three
\* widgets being in the cycle: the second of the cycle got the focus (not
\* the last, as focus_previous would have it) and True was returned.
C15_Witness ==
    /\ TabDispatched
    /\ ~last_op.shift
    /\ last_op.before.focused # {}
    /\ Len(last_op.before.focus_widgets) = 3
    /\ last_op.before.alive = Widgets
    /\ last_op.target = last_op.before.focus_widgets[2]
    /\ last_op.returned = "True"

MouseDispatched == last_op.op = "dispatch_mouse"

FirstLive(refs, live) ==
    refs[CHOOSE i \in 1..Len(refs) :
             refs[i] \in live /\ \A k \in 1..(i - 1) : refs[k] \notin live]

\* The entries after the head in the order of the cycle, the head last; and
\* the entries before the head going backwards, the head last.
AfterHead(dq) == Append(Tail(dq), Head(dq))
BeforeHead(dq) == [i \in 1..Len(dq) |-> dq[Len(dq) + 1 - i]]

\* The dead entries passed over on the way to the first live one.
PassedOver(refs, live) ==
    { refs[k] : k \in { i \in 1..Len(refs) :
                            \A j \in 1..i : refs[j] \notin live } }

CycleCall == last_op.method \in {"focus_next", "focus_previous"}

\* The entries of the cycle that are not dead.
LiveEntries == { focus_widgets[i] : i \in 1..Len(focus_widgets) } \cap alive

\* A run of as many focus_next calls as there are live entries.
FullRun == run.targets # <<>> /\ Len(run.targets) = Cardinality(LiveEntries)

EachOnce(targets) ==
    /\ \A i, j \in 1..Len(targets) : i # j => targets[i] # targets[j]
    /\ { targets[i] : i \in 1..Len(targets) } = LiveEntries

SearchOrder(method, dq, any_focused) ==
    IF ~any_focused THEN dq
    ELSE IF method = "focus_next" THEN AfterHead(dq)
    ELSE BeforeHead(dq)

RemoveCalled == tree_op.op = "remove_widget"

\* C18: remove_widget called on a widget that is not the parent of the
\* widget named raises, and leaves the children list of the widget it was
\* called on and the parent of the widget named (and the rest of the tree)
\* as they were.
C18_RemoveFromNonParent ==
    (RemoveCalled /\ tree_op.before.parent[tree_op.widget] # tree_op.self) =>
        /\ tree_op.raised
        /\ children[tree_op.self] = tree_op.before.children[tree_op.self]
        /\ widget_parent[tree_op.widget] = tree_op.before.parent[tree_op.widget]
        /\ children = tree_op.before.children
        /\ widget_parent = tree_op.before.parent

\* A.remove_widget(G) was called while G was a child of B: it raised, and G
\* is still a child of B.
C18_Witness ==
    /\ RemoveCalled
    /\ tree_op.self = "A"
    /\ tree_op.widget = "G"
    /\ tree_op.before.parent["G"] = "B"
    /\ tree_op.raised
    /\ widget_parent["G"] = "B"
    /\ contains(children["B"], "G")

(***************************************************************************)
(* normalize_canvas.                                                       *)
(***************************************************************************)
\* C19: when normalize_canvas raises, the canvas is as it was before the
\* call: no zero-width character replaced, no zero-width space written.
C19_RejectedLeavesCanvas ==
    (norm_op.called /\ norm_op.raised) => canvas["A"] = norm_op.before

(***************************************************************************)
(* Mouse reports with unknown codes.                                       *)
(***************************************************************************)
\* The events of what follows a report.
TailEvents(t) == IF t = <<>> THEN <<>> ELSE <<ANSI_ESCAPES[t]>>

\* C20: a well-formed SGR, urxvt or legacy mouse report whose code is not in
\* the table of its encoding yields no event and raises nothing, and is
\* consumed whole by one match: the characters after it in the same read
\* are decoded as if they had come alone.
C20_UnknownMouseCodeDropped ==
    \A r \in UnknownReports, t \in Tails :
        reads = <<r \o t>> =>
            /\ yielded = TailEvents(t)
            /\ ~read_raised
            /\ _EVENTS = <<>>
            /\ matches = IF t = <<>> THEN 1 ELSE 2

\* A urxvt report with an unknown code and the up-arrow sequence came in one
\* read: only the Up key was yielded, after two matches.
C20_Witness ==
    /\ reads = <<URXVT_UNKNOWN \o UP>>
    /\ yielded = <<KeyPressEvent(<<"Key.Up">>, NO_MODS)>>
    /\ matches = 2
    /\ ~read_raised
(***************************************************************************)
(* Claims about the order of dispatch                                      *)
(***************************************************************************)
\* C21: the events are dispatched in exactly the order the decoder emitted
\* them, which is the order in which their character sequences began in
\* the input stream, within one read and across reads: the events
\* dispatched so far are the events yielded so far, each by the method of
\* its type, and each began later in the stream than the one before it.
C21_DispatchedInStreamOrder ==
    /\ [k \in 1..Len(dispatched) |-> dispatched[k].event] = yielded
    /\ \A k \in 1..Len(dispatched) :
           /\ dispatched[k].method = dispatch_method(dispatched[k].event)
           /\ dispatched[k].at < StreamLen(reads)
    /\ \A j, k \in 1..Len(dispatched) :
           j < k => dispatched[j].at < dispatched[k].at

\* A key, a mouse report, a paste and a key, sent in two chunks that were
\* read one after the other, have been dispatched in that order.
C21_Witness ==
    /\ Len(reads) = 2
    /\ reads[1] \o reads[2] = KEY_MOUSE_PASTE_KEY
    /\ [k \in 1..Len(dispatched) |-> dispatched[k].method] =
           <<"dispatch_key", "dispatch_mouse", "dispatch_paste", "dispatch_key">>
    /\ dispatched[4].event = KeyPressEvent(<<"Key.Up">>, NO_MODS)
    /\ dispatched[4].at = Len(KEY_MOUSE_PASTE_KEY) - 3
\* The widgets of the tree below P, P included.
Shown(w) == w \in Subtree("P")

\* C22: a render traversal and the dispatch of an event are each atomic:
\* while a traversal has painted some widgets and not yet the others the
\* loop is executing auto_render and no dispatch is under way, while a
\* dispatch has called some handlers and not yet the others the loop is
\* executing read_from_input, and every frame handed to the output shows
\* each widget as all the dispatches completed before the traversal began
\* left it, and as no later step of any task left it.
C22_RenderAndDispatchAtomic ==
    /\ render_at = "render" => running = "auto_render" /\ read_at = "return"
    /\ read_at = "dispatch" => running = "read_from_input" /\ render_at = "sleep"
    /\ shown.rendered =>
           \A w \in Widgets :
               Shown(w) =>
                   /\ shown.frame[w].text = shown.started.completed
                   /\ shown.frame[w].ticks = shown.started.ticks

\* The second frame has been shown; its traversal began after both events
\* had been dispatched and after a step of on_start.
C22_Witness ==
    /\ shown.rendered
    /\ renders = 2
    /\ shown.started = [completed |-> 2, ticks |-> 1]
    /\ shown.frame["A"] = [text |-> 2, ticks |-> 1]
    /\ render_at = "sleep"
(***************************************************************************)
(* Claims about TextAnimation                                              *)
(***************************************************************************)
\* C23: on_remove cancels the animation task the widget owns: from the
\* return of on_remove on, and until play is called again, no task created
\* by the widget's play is able to run another pass of _play_animation
\* (none is newly created or sleeping), and no such task has advanced the
\* frame index since, whatever calls of play, pause and stop and whatever
\* task steps came before or between.
C23_RemoveCancelsAnimation ==
    /\ removed => \A t \in Tasks : task_at[t] \notin {"created", "sleeping"}
    /\ ~advanced

\* The widget has been removed after its second play, with the second of
\* two frames shown: both tasks have been cancelled.
C23_Witness ==
    /\ removed
    /\ frames = 2
    /\ _animation_task = 2
    /\ task_at = [t \in Tasks |-> "cancelled"]
    /\ _i = 1
(***************************************************************************)
(* Claims about Widget.resize                                              *)
(***************************************************************************)
\* What the canvas and the colours were two calls of resize ago.
TwoAgo == resizes[Len(resizes) - 1]
OneAgo == resizes[Len(resizes)]

\* The last two calls of resize went from size A to size B and back to A.
ThereAndBack == Len(resizes) >= 2 /\ TwoAgo.size = size["A"]

\* C24: after a resize from A to B and one back to A, with no writes in
\* between, the buffer has size A again, every cell inside the
\* componentwise minimum of A and B holds the character and the colours
\* it held before the two calls, and every other cell holds the widget's
\* default character and default colour pair.
C24_ResizeThereAndBack ==
    ThereAndBack =>
        LET A == size["A"]
            B == OneAgo.size
            inside(p) == p[1] < Min(A.height, B.height)
                         /\ p[2] < Min(A.width, B.width)
        IN  /\ DOMAIN canvas["A"] = Cells(A.height, A.width)
            /\ DOMAIN colors["A"] = Cells(A.height, A.width)
            /\ \A p \in Cells(A.height, A.width) :
                   IF inside(p)
                   THEN /\ canvas["A"][p] = TwoAgo.canvas[p]
                        /\ colors["A"][p] = TwoAgo.colors[p]
                   ELSE /\ canvas["A"][p] = default_char["A"]
                        /\ colors["A"][p] = default_color_pair["A"]

\* A 2 x 2 widget was shrunk to 1 x 2 and grown back: its first row is as
\* it was and its second row, which held text, holds the default cell.
C24_Witness ==
    /\ ThereAndBack
    /\ size["A"] = [height |-> 2, width |-> 2]
    /\ OneAgo.size = [height |-> 1, width |-> 2]
    /\ canvas["A"][<<0, 0>>] = TwoAgo.canvas[<<0, 0>>]
    /\ TwoAgo.canvas[<<1, 0>>] # default_char["A"]
    /\ canvas["A"][<<1, 0>>] = default_char["A"]
    /\ colors["A"][<<1, 1>>] = WHITE_ON_BLACK
(***************************************************************************)
(* Claims about AutoPositionBehavior                                       *)
(***************************************************************************)
\* The anchor point of A, in its parent's coordinates.
AnchorPoint ==
    CASE anchor = "TOP_LEFT" -> [top |-> pos["A"].top, left |-> pos["A"].left]
      [] anchor = "TOP_RIGHT" ->
            [top |-> pos["A"].top, left |-> right(Box("A"))]
      [] anchor = "BOTTOM_LEFT" ->
            [top |-> bottom(Box("A")), left |-> pos["A"].left]
      [] anchor = "BOTTOM_RIGHT" ->
            [top |-> bottom(Box("A")), left |-> right(Box("A"))]
      [] anchor = "CENTER" ->
            [top |-> pos["A"].top + middle(Box("A")).top,
             left |-> pos["A"].left + middle(Box("A")).left]

\* C25: after update_geometry the widget's anchor point lies at
\* (round(parent height * top_hint), round(parent width * left_hint)) in
\* the parent's coordinates, whatever the widget's position was before.
C25_AnchorAtHint ==
    geometry_updates > 0 =>
        AnchorPoint = [top |-> round(size["P"].height, top_hint),
                       left |-> round(size["P"].width, left_hint)]
(***************************************************************************)
(* Claims about blur and about the cycle after focus                       *)
(***************************************************************************)
\* C26: blur on a focused widget removes that widget, and no other, from
\* the focus set and calls its on_blur once and no other hook; the other
\* focused widgets, its ancestors among them, stay focused. blur on a
\* widget that is not focused changes nothing and calls no hook. Neither
\* touches the cycle or the children lists.
C26_BlurOnlyItself ==
    last_op.method = "blur" =>
        LET w == last_op.self
            was == last_op.before.focused
        IN  /\ focused = was \ {w}
            /\ \A x \in Widgets :
                   /\ last_op.on_blur[x] = IF x = w /\ w \in was THEN 1 ELSE 0
                   /\ last_op.on_focus[x] = 0
            /\ focus_widgets = last_op.before.focus_widgets
            /\ children = last_op.before.children

\* blur(G) was called while G and its parent A were focused: A still is.
C26_Witness ==
    /\ last_op.op = "blur"
    /\ last_op.self = "G"
    /\ parent(children, "G") = "A"
    /\ last_op.before.focused = {"A", "G"}
    /\ focused = {"A"}
    /\ last_op.on_blur["G"] = 1
    /\ last_op.on_blur["A"] = 0

\* The entries of a cycle whose widget is not destroyed, in order.
LiveOf(dq, live) == SelectSeq(dq, LAMBDA w : w \in live)

\* t is s turned: the same entries in the same cyclic order.
IsRotation(s, t) ==
    /\ Len(s) = Len(t)
    /\ s = <<>> \/ \E k \in 0..(Len(s) - 1) :
                      \A i \in 1..Len(s) : t[i] = s[((i - 1 + k) % Len(s)) + 1]

\* t is s with some entries left out.
RECURSIVE IsSubsequence(_, _)
IsSubsequence(t, s) ==
    IF t = <<>> THEN TRUE
    ELSE IF s = <<>> THEN FALSE
    ELSE IF Head(t) = Head(s) THEN IsSubsequence(Tail(t), Tail(s))
    ELSE IsSubsequence(t, Tail(s))

\* C27: focus(w) returns with w at the head of the cycle; the entries of
\* live widgets are the same as before and in the same cyclic order, and
\* the cycle is the old one, turned, with nothing but entries of destroyed
\* widgets left out.
C27_FocusKeepsCycle ==
    last_op.method = "focus" =>
        LET old == last_op.before.focus_widgets
            live == last_op.before.alive
        IN  /\ focus_widgets # <<>>
            /\ Head(focus_widgets) = last_op.self
            /\ IsRotation(LiveOf(old, live), LiveOf(focus_widgets, live))
            /\ \E k \in 1..Len(old) :
                   /\ old[k] = last_op.self
                   /\ IsSubsequence(focus_widgets,
                                    SubSeq(old, k, Len(old))
                                    \o SubSeq(old, 1, k - 1))

\* focus(G) met the cycle B, A, G with B destroyed: the entry of B is gone,
\* and A, which was ahead of G, now comes after it.
C27_Witness ==
    /\ last_op.op = "focus"
    /\ last_op.self = "G"
    /\ last_op.before.focus_widgets = <<"B", "A", "G">>
    /\ "B" \notin alive
    /\ focus_widgets = <<"G", "A">>
(***************************************************************************)
(* Claims about disabled and hidden widgets in a dispatch                  *)
(***************************************************************************)
\* The dispatch of the event on P has returned.
EventDispatched == handled # "pending"

\* Neither the widget nor an ancestor of it below P is disabled.
EnabledPath(w) ==
    /\ InTree(w)
    /\ w = "P" \/ is_enabled[w]
    /\ \A i \in 1..Len(PathToP(w)) :
           PathToP(w)[i] = "P" \/ is_enabled[PathToP(w)[i]]

\* The handlers in the order a dispatch reaches them when visibility plays
\* no part: below each widget its enabled children, the last one first,
\* then the widget itself.
RECURSIVE Offered(_)
Offered(w) ==
    LET kids == SelectSeq(Reverse(children[w]), LAMBDA c : is_enabled[c])
        below[k \in 0..Len(kids)] ==
            IF k = 0 THEN <<>> ELSE below[k - 1] \o Offered(kids[k])
    IN  below[Len(kids)] \o <<w>>

\* A list up to and including its first widget whose handler returns true.
UpToFirstTrue(ws) ==
    IF \E i \in 1..Len(ws) : Truthy(handler(event, ws[i]))
    THEN SubSeq(ws, 1, CHOOSE i \in 1..Len(ws) :
                          /\ Truthy(handler(event, ws[i]))
                          /\ \A j \in 1..(i - 1) : ~Truthy(handler(event, ws[j])))
    ELSE ws

\* C28: in the dispatch of a key, mouse or paste event no handler of a
\* disabled child or of a widget below one is called, and a child that is
\* enabled but not visible is tried exactly as if it were visible: the
\* handlers called are those of the widgets with no disabled widget on
\* their path, topmost first, up to the first that returns true, wherever
\* is_visible is false.
C28_DisabledSkippedHiddenNot ==
    EventDispatched =>
        /\ \A i \in 1..Len(calls) : EnabledPath(calls[i])
        /\ calls = UpToFirstTrue(Offered("P"))

\* An event was dispatched on a tree where A is disabled and has the enabled
\* child G, and B is enabled and not visible: B's handler was called and
\* then P's, G's and A's were not.
C28_Witness ==
    /\ EventDispatched
    /\ event = "press"
    /\ children["P"] = <<"A", "B">>
    /\ children["A"] = <<"G">>
    /\ ~is_enabled["A"] /\ is_enabled["G"]
    /\ is_enabled["B"] /\ ~is_visible["B"]
    /\ calls = <<"B", "P">>
(***************************************************************************)
(* Claims about the child lists                                            *)
(***************************************************************************)
\* A list without the entries of one widget.
Others(list, c) == SelectSeq(list, LAMBDA w : w # c)

\* C29: pull_to_front(c) on c's parent moves c to the end of the parent's
\* child list, so that c is the last child rendered and the first offered
\* an event; the list has the same widgets as before, the others in the
\* same relative order, no other list changes, and c's parent
\* back-reference, like every other, is what it was.
C29_PullToFrontMovesLast ==
    (tree_op.op = "pull_to_front" /\ ~tree_op.raised) =>
        LET p == tree_op.self
            c == tree_op.widget
            old == tree_op.before.children[p]
            new == children[p]
        IN  /\ Len(new) = Len(old)
            /\ new[Len(new)] = c
            /\ Others(new, c) = Others(old, c)
            /\ \A q \in Widgets \ {p} : children[q] = tree_op.before.children[q]
            /\ widget_parent = tree_op.before.parent
            /\ widget_parent[c] = p
            /\ render_order(children, p)[Len(new)] = c
            /\ dispatch_order(children, p)[1] = c

\* P.pull_to_front(A) was called with the children A, B, G: they are now
\* B, G, A.
C29_Witness ==
    /\ tree_op.op = "pull_to_front"
    /\ ~tree_op.raised
    /\ tree_op.self = "P"
    /\ tree_op.widget = "A"
    /\ tree_op.before.children["P"] = <<"A", "B", "G">>
    /\ children["P"] = <<"B", "G", "A">>
    /\ widget_parent["A"] = "P"
\* The places of a widget in the child lists.
PlacesOf(w) ==
    { <<p, i>> \in Widgets \X (1..MaxEntries) :
          i <= Len(children[p]) /\ children[p][i] = w }

\* C30: after any calls of add_widget, add_widgets, remove_widget and
\* pull_to_front that raised nothing, every widget is in at most one child
\* list and at most once in it, and a widget's parent back-reference names
\* p exactly when the widget is in p's child list.
C30_ChildListsConsistent ==
    \A w \in Widgets :
        /\ Cardinality(PlacesOf(w)) <= 1
        /\ \A p \in Widgets :
               widget_parent[w] = p <=> contains(children[p], w)

\* C31: one resize to size B keeps the characters and colours of the
\* top-left rectangle common to the old and the new size, fills every other
\* cell of the new buffer with the default character and colour pair, and
\* then calls update_geometry on every direct child exactly once, in list
\* order, each call finding the new buffer in place.
C31_ResizeCopiesThenNotifies ==
    resizes # <<>> =>
        LET new == size["A"]
            old == OneAgo
            common(p) == p[1] < Min(old.size.height, new.height)
                         /\ p[2] < Min(old.size.width, new.width)
        IN  /\ DOMAIN canvas["A"] = Cells(new.height, new.width)
            /\ DOMAIN colors["A"] = Cells(new.height, new.width)
            /\ \A p \in Cells(new.height, new.width) :
                   IF common(p)
                   THEN /\ canvas["A"][p] = old.canvas[p]
                        /\ colors["A"][p] = old.colors[p]
                   ELSE /\ canvas["A"][p] = default_char["A"]
                        /\ colors["A"][p] = default_color_pair["A"]
            /\ [k \in 1..Len(geometry_calls) |-> geometry_calls[k].widget]
                   = children["A"]
            /\ \A k \in 1..Len(geometry_calls) :
                   geometry_calls[k].parent_shape = new

\* A 1 x 2 widget with the children B and G was resized to 2 x 1: its first
\* cell is as it was, the new cell below holds the default cell, and B and
\* then G were notified.
C31_Witness ==
    /\ Len(resizes) = 1
    /\ OneAgo.size = [height |-> 1, width |-> 2]
    /\ size["A"] = [height |-> 2, width |-> 1]
    /\ canvas["A"][<<0, 0>>] = OneAgo.canvas[<<0, 0>>]
    /\ canvas["A"][<<1, 0>>] = default_char["A"]
    /\ colors["A"][<<1, 0>>] = WHITE_ON_BLACK
    /\ geometry_calls = <<[widget |-> "B", parent_shape |-> size["A"]],
                          [widget |-> "G", parent_shape |-> size["A"]]>>

\* The length of the longest prefix of data that MOUSE_RE accepts or that is
\* a key of ANSI_ESCAPES; 0 if there is none.
MatchedLength(data) ==
    LET hits == { i \in 1..Len(data) :
                    \/ MOUSE_RE_match(UpTo(data, i))
                    \/ UpTo(data, i) \in DOMAIN ANSI_ESCAPES }
    IN  IF hits = {} THEN 0 ELSE CHOOSE i \in hits : \A j \in hits : j <= i

\* The matched entry of the call is the bare Escape key and what is left of
\* the data is not empty and not a known sequence.
EscapeThenUnknown(data) ==
    /\ MatchedLength(data) = 1
    /\ data[1] = ESC
    /\ Tail(data) # <<>>
    /\ Tail(data) \notin DOMAIN ANSI_ESCAPES

\* C32: when the match of a call of _find_longest_match is the bare Escape
\* key and the rest of the buffer is not empty and not a known sequence, the
\* call emits exactly one event, the key "alt + character" if the rest is one
\* character and otherwise a literal key holding the whole buffer, no Escape
\* event, and the buffer is emptied (the call is the last of the read).
C32_EscapeThenUnknownIsOneKey ==
    \A k \in DOMAIN match_calls :
        LET c == match_calls[k]
            rest == Tail(c.data)
        IN  EscapeThenUnknown(c.data) =>
                /\ ~c.raised
                /\ c.events = <<IF Len(rest) = 1
                                THEN KeyPressEvent(rest, ALT)
                                ELSE KeyPressEvent(c.data, NO_MODS)>>
                /\ c.events[1] # ESCAPE
                /\ c.suffix = <<>>
                /\ k = Len(match_calls)

\* Escape, x, y was read at once and yielded as one literal key.
C32_Witness ==
    /\ reads = << <<ESC, "x", "y">> >>
    /\ Len(match_calls) = 1
    /\ yielded = <<KeyPressEvent(<<ESC, "x", "y">>, NO_MODS)>>
    /\ stdin = <<>>

\* data begins with the start marker of a bracketed paste and holds the
\* terminator after it.
IsWholePaste(data) ==
    /\ Len(data) >= Len(PASTE_START)
    /\ UpTo(data, Len(PASTE_START)) = PASTE_START
    /\ \E j \in 0..(Len(data) - Len(PASTE_START) - Len(PASTE_END)) :
           SubSeq(data, Len(PASTE_START) + j + 1,
                  Len(PASTE_START) + j + Len(PASTE_END)) = PASTE_END

\* The characters between the start marker and the first terminator.
PasteBody(data) ==
    LET rest == From(data, Len(PASTE_START))
        ends == { j \in 0..(Len(rest) - Len(PASTE_END)) :
                    SubSeq(rest, j + 1, j + Len(PASTE_END)) = PASTE_END }
        j == CHOOSE e \in ends : \A o \in ends : e <= o
    IN  [content |-> SubSeq(rest, 1, j),
         after |-> SubSeq(rest, j + Len(PASTE_END) + 1, Len(rest))]

\* C33: when the buffer handed to _find_longest_match begins with the start
\* marker of a bracketed paste and holds the terminator, the call emits
\* exactly one Paste event whose content is everything between the two,
\* character for character, and the next call starts at the first character
\* after the terminator.
C33_PasteIsVerbatim ==
    \A k \in DOMAIN match_calls :
        LET c == match_calls[k]
        IN  IsWholePaste(c.data) =>
                /\ ~c.raised
                /\ c.events = <<PasteEvent(PasteBody(c.data).content)>>
                /\ c.suffix = PasteBody(c.data).after
                /\ IF PasteBody(c.data).after = <<>>
                   THEN k = Len(match_calls)
                   ELSE /\ k < Len(match_calls)
                        /\ match_calls[k + 1].data = PasteBody(c.data).after

\* A paste holding an arrow key sequence and a mouse report, followed by the
\* key a, was read at once: one Paste event with the sequences as they came,
\* then the key a.
C33_Witness ==
    /\ reads = <<PASTE_OF_ESCAPES>>
    /\ yielded = <<PasteEvent(UP \o SGR_DOWN), KeyPressEvent(<<"a">>, NO_MODS)>>
    /\ Len(match_calls) = 2
    /\ match_calls[2].data = <<"a">>

\* The value of a coordinate character of a legacy report.
ByteOf(c) == IF Ord(c) >= 56320 THEN Ord(c) - 56320 ELSE Ord(c)

\* The position, button and event type the three grammars give a report.
ReportMeaning(report) ==
    IF report[3] = "M"
    THEN [position |-> <<ByteOf(report[6]) - 32, ByteOf(report[5]) - 32>>,
          info |-> get(TYPICAL, Ord(report[4]))]
    ELSE LET sgr == report[3] = "<"
             f == split(SubSeq(report, IF sgr THEN 4 ELSE 3, Len(report) - 1))
         IN  [position |-> <<int(f[3]) - 1, int(f[2]) - 1>>,
              info |-> IF sgr
                       THEN get(TERM_SGR, <<int(f[1]), report[Len(report)]>>)
                       ELSE get(URXVT, int(f[1]))]

\* The call matched a mouse report and emitted an event.
DecodedReport(c) ==
    /\ c.events # <<>>
    /\ MatchedLength(c.data) > 0
    /\ MOUSE_RE_match(UpTo(c.data, MatchedLength(c.data)))

\* C34: the position of a decoded mouse event is (y - 1, x - 1) for an SGR
\* or urxvt report and (y - 32, x - 32) for a legacy report, a legacy
\* coordinate character of code 0xDC00 or more counting 0xDC00 less; button
\* and event type are the entry of the grammar's table, looked up for SGR by
\* the event code and the final M or m.
C34_MousePositionAndButton ==
    \A k \in DOMAIN match_calls :
        LET c == match_calls[k]
            m == ReportMeaning(UpTo(c.data, MatchedLength(c.data)))
        IN  DecodedReport(c) =>
                /\ Len(c.events) = 1
                /\ c.events[1].type = "mouse"
                /\ c.events[1].position = m.position
                /\ <<c.events[1].button, c.events[1].event_type>> = m.info[1]

\* The legacy report of a left press at column byte "!" and row byte 0xA1
\* was read: the event is at row 0xA1 - 32 = 129, column 33 - 32 = 1.
C34_Witness ==
    /\ reads = <<TYPICAL_HIGH>>
    /\ yielded = <<MouseEvent(<<129, 1>>, <<"LEFT", "MOUSE_DOWN">>)>>

\* C35: every call of _find_longest_match on a buffer that is not empty
\* returns a strictly shorter remainder, and when no prefix matches the table
\* or the mouse pattern it emits the first character as a literal key and
\* returns the rest.
C35_EveryCallReturnsLess ==
    \A k \in DOMAIN match_calls :
        LET c == match_calls[k]
        IN  /\ ~c.raised
            /\ Len(c.suffix) < Len(c.data)
            /\ MatchedLength(c.data) = 0 =>
                   /\ c.events = <<KeyPressEvent(<<c.data[1]>>, NO_MODS)>>
                   /\ c.suffix = Tail(c.data)

\* C36: every call of _find_longest_match whose match is a prefix accepted
\* by MOUSE_RE ends without an exception, having emitted one mouse event or
\* no event.
C36_AcceptedReportDecodes ==
    \A k \in DOMAIN match_calls :
        LET c == match_calls[k]
        IN  /\ c.data # <<>>
            /\ MatchedLength(c.data) > 0
            /\ MOUSE_RE_match(UpTo(c.data, MatchedLength(c.data)))
            => /\ ~c.raised
               /\ \/ c.events = <<>>
                  \/ Len(c.events) = 1 /\ c.events[1].type = "mouse"

\* C37: whenever overlapping_region returns a region, for a child of
\* non-negative size, the destination slice lies inside the rectangle
\* [0, h] x [0, w], the source rectangle lies inside the child's buffer
\* [0, child.height] x [0, child.width], and in both top <= bottom and
\* left <= right.
C37_RegionInsideBoth ==
    (OverlapReturned /\ region.ret.hit) =>
        LET d == region.ret.dest
            s == region.ret.src
        IN  /\ 0 <= d.top /\ d.top <= d.bottom /\ d.bottom <= rect.height
            /\ 0 <= d.left /\ d.left <= d.right /\ d.right <= rect.width
            /\ 0 <= s.top /\ s.top <= s.bottom /\ s.bottom <= child.height
            /\ 0 <= s.left /\ s.left <= s.right /\ s.right <= child.width

\* A region was returned for a child that begins above and to the left of
\* the rectangle and ends beyond its bottom and right edges, so that every
\* bound is set by the rectangle.
C37_Witness ==
    /\ OverlapReturned
    /\ region.ret.hit
    /\ ct_ < 0 /\ cb_ > rect.height
    /\ cl_ < 0 /\ cr_ > rect.width
    /\ rect.height > 0 /\ rect.width > 0
    /\ region.ret.src.top = -ct_
    /\ region.ret.src.bottom < child.height

(***************************************************************************)
(* Claims about the focus set as a whole and about key dispatch            *)
(***************************************************************************)
\* Every focusable ancestor of a focused widget is focused.
UpwardClosed(kids, foc) == \A w \in foc : FocusSet(kids, w) \subseteq foc

\* C38: a call of focus, blur, focus_next or focus_previous made while the
\* focus set is upward closed (every focusable ancestor of a focused widget
\* is focused) leaves it upward closed; the focus set is empty, hence upward
\* closed, at the start.
C38_FocusSetUpwardClosed ==
    [][ (/\ UpwardClosed(children, focused)
         /\ last_op'.op \in {"focus", "blur", "focus_next", "focus_previous"})
        => UpwardClosed(children', focused') ]_vars

\* A key event was dispatched from the root.
RootKeyDispatched == last_op.op = "root_dispatch_key"

\* A focusable widget that the dispatch can reach: it is in the tree and
\* neither it nor a widget above it is disabled.
ReachableFocusable(kids, live) ==
    { w \in live \cap is_focusable :
        /\ "P" \in walk_reverse(kids, w)
        /\ \A a \in (walk_reverse(kids, w) \cup {w}) \ {"P"} : is_enabled[a] }

\* The calls a widget's base dispatch makes: the dispatch of a child and its
\* own handler.
PassedBelow(kids, w, c) ==
    \/ c.call = "on_press" /\ c.widget = w
    \/ c.call = "dispatch_key" /\ parent(kids, c.widget) = w

\* C39: a tab or shift+tab key event dispatched from the root invokes
\* focus_next or focus_previous at most once (once if a focusable widget can
\* be reached), however many focusable widgets there are and however they
\* are nested, and leaves the focus set, the cycle and the children lists as
\* that one call does; another key leaves them as they were, and is passed
\* to the children and the own handler of a focusable widget only if that
\* widget is focused.
C39_OneFocusMovePerTab ==
    RootKeyDispatched =>
        LET b == last_op.before
            moves == FocusCallsOf(key_calls)
            now_ == [children |-> children, focus_widgets |-> focus_widgets,
                     focused |-> focused]
            same(e) == now_ = [children |-> e.children,
                               focus_widgets |-> e.focus_widgets,
                               focused |-> e.focused]
        IN  IF last_op.key = "tab"
            THEN /\ Len(moves) <= 1
                 /\ ReachableFocusable(b.children, b.alive) # {} => Len(moves) = 1
                 /\ \A i \in 1..Len(moves) :
                        moves[i].call = IF last_op.shift THEN "focus_previous"
                                        ELSE "focus_next"
                 /\ IF moves = <<>> THEN same(b)
                    ELSE same(DirectCall(moves[1].call))
            ELSE /\ moves = <<>>
                 /\ same(b)
                 /\ \A w \in is_focusable : \A i \in 1..Len(key_calls) :
                        PassedBelow(b.children, w, key_calls[i]) => w \in b.focused

\* A tab was dispatched from the root of a tree in which A, B and G are
\* focusable, G is a child of A and A and B are children of the root, while
\* A and G were focused: focus_next was invoked once, on the topmost child
\* of the root, and the focus went to the next widget of the cycle.
C39_Witness ==
    /\ RootKeyDispatched
    /\ last_op.key = "tab" /\ ~last_op.shift
    /\ is_focusable = {"A", "B", "G"}
    /\ alive = Widgets
    /\ parent(last_op.before.children, "G") = "A"
    /\ parent(last_op.before.children, "A") = "P"
    /\ parent(last_op.before.children, "B") = "P"
    /\ last_op.before.focused = {"A", "G"}
    /\ Len(FocusCallsOf(key_calls)) = 1
    /\ key_calls[Len(key_calls)].widget
           = last_op.before.children["P"][Len(last_op.before.children["P"])]
    /\ Head(focus_widgets) # Head(last_op.before.focus_widgets)
    /\ Head(focus_widgets) \in focused

(***************************************************************************)
(* Claims about the frame index and the tasks of a TextAnimation           *)
(***************************************************************************)
\* The tasks that were created, were not asked to stop and have not ended.
Running == { t \in Tasks : task_at[t] \in {"created", "sleeping"} }

\* The sleep that just ended met the index on the last frame of its
\* direction: the pass takes the index past it.
WrapsPast == IF last_wake.reverse THEN last_wake.from = 0
             ELSE last_wake.from = frames - 1

\* C40: for a TextAnimation with at least one frame, whatever calls of
\* play, pause and stop, changes of the reverse flag and task steps were
\* made, the frame index is within 0..len(frames) - 1 and at most one task
\* that was not cancelled is left, the one the widget holds; and a pass of
\* a task that takes the index past the last frame (the first when reversed)
\* sets it to the other end and, with loop false, ends the task, while any
\* other pass leaves it running.
C40_IndexInRangeOneTask ==
    frames >= 1 =>
        /\ _i \in 0..(frames - 1)
        /\ Cardinality(Running) <= 1
        /\ Running \subseteq {_animation_task}
        /\ last_wake.task # 0 =>
               /\ WrapsPast => _i = first_frame(frames, last_wake.reverse)
               /\ task_at[last_wake.task] =
                      IF WrapsPast /\ ~loop THEN "done" ELSE "sleeping"

\* With two frames and loop false, the second task, started forwards and
\* reversed on the way, has gone from the first frame past it and ended,
\* the index being on the last frame; the first task was cancelled.
C40_Witness ==
    /\ frames = 2
    /\ ~loop
    /\ reverse
    /\ last_wake = [task |-> 2, from |-> 0, reverse |-> TRUE]
    /\ task_at[2] = "done"
    /\ task_at[1] = "cancelled"
    /\ _i = 1
====
